---- MODULE Spec2Model ----
(***************************************************************************)
(* TaskFlow: the team-connection workflow (TeamPage), the task list        *)
(* (TasksPage with its TaskDialog) and the notification feed               *)
(* (NotificationCenter), each a React component working on the hosted      *)
(* record store through list / create / update / delete.                   *)
(*                                                                         *)
(* Every handler is an async function: it runs to its next await, the      *)
(* external service answers (or rejects) at some later time, and other     *)
(* handlers may run in between.  An invocation in flight is a record in    *)
(* the bag `inflight`; one action is one step of one invocation, from the  *)
(* answer of the awaited call to the next await (or to the end).           *)
(*                                                                         *)
(* The record store is an external service.  Its collections are the       *)
(* sequences db_*; a record's id is its position in the collection, and    *)
(* the order of the sequence is the order of creation (created_at).        *)
(***************************************************************************)
EXTENDS Integers, Sequences, FiniteSets, Bags, TLC

(***************************************************************************)
(* Bounds of the model.                                                    *)
(***************************************************************************)
\* records of user_connections present before any session starts
MaxSeed == 2
\* records user_connections may hold (Send Invite is not clicked beyond it)
MaxConnections == 2
\* records the notifications collection may hold
MaxNotifications == 2
\* handler invocations in flight at one time
MaxInflight == 2
\* tasks handleCreateTask may create
MaxTasks == 1
\* notifications in the store when the feed is opened on a long history
MaxStored == 60

(***************************************************************************)
(* Users and text.  Text the code trims or splits is a sequence of         *)
(* one-character strings.                                                  *)
(***************************************************************************)
Users == {"u1", "u2"}

\* blink.auth.me().email of each signed-in user
EmailOf(u) == IF u = "u1" THEN <<"a", "@", "x">> ELSE <<"b", "@", "x">>

\* a field the record does not carry (undefined): falsy in the code
NoId == ""
NoEmail == <<>>

\* what a user may type into the invite dialog's email input
InviteInputs == {<<" ">>} \cup {EmailOf(u) : u \in Users}

RECURSIVE TrimStart(_)
TrimStart(s) ==
  IF s # <<>> /\ Head(s) = " " THEN TrimStart(Tail(s)) ELSE s

RECURSIVE TrimEnd(_)
TrimEnd(s) ==
  IF s # <<>> /\ s[Len(s)] = " " THEN TrimEnd(SubSeq(s, 1, Len(s) - 1)) ELSE s

\* the text as typed
Untrimmed(s) == s

\* String.prototype.trim
Trim(s) == TrimEnd(TrimStart(s))

RECURSIVE SplitAtFirst(_)
\* email.split('@')[0]
SplitAtFirst(s) ==
  IF s = <<>> \/ Head(s) = "@" THEN <<>> ELSE <<Head(s)>> \o SplitAtFirst(Tail(s))

RECURSIVE Reverse(_)
Reverse(s) == IF s = <<>> THEN <<>> ELSE Reverse(Tail(s)) \o <<Head(s)>>

VARIABLES
  db_user_connections,  \* store collection user_connections
  db_notifications,     \* store collection notifications
  emailsSent,           \* blink.notifications.email calls that succeeded: the "to" of each
  connections,          \* TeamPage state, per signed-in user
  teamMembers,
  pendingRequests,
  inviteEmail,
  inviteDialogOpen,
  loading,
  toast,                \* the toast the page shows last, per user
  db_tasks,             \* store collection tasks
  taskClock,            \* Date.now() as handleCreateTask reads it: one tick per create
  tasks,                \* TasksPage state, per signed-in user
  tasksLoading,
  isDialogOpen,
  editingTask,
  assigneeId,           \* TaskDialog state, per signed-in user
  dialogTeamMembers,
  searchQuery,          \* TasksPage: the text of the search box, per user
  statusFilter,         \* TasksPage: the status filter, per user
  priorityFilter,       \* TasksPage: the priority filter, per user
  notifications,        \* NotificationCenter state, per signed-in user
  unreadCount,
  feedLoading,
  mounted,              \* the component the sessions have open
  inflight,             \* bag of handler invocations awaiting an external call
  answer                \* what the awaited service answered in the step taken last

teamView == <<connections, teamMembers, pendingRequests, inviteEmail,
              inviteDialogOpen, loading, toast>>
teamStore == <<db_user_connections, db_notifications, emailsSent>>
filterView == <<searchQuery, statusFilter, priorityFilter>>
tasksView == <<tasks, tasksLoading, isDialogOpen, editingTask, assigneeId,
               dialogTeamMembers, filterView>>
tasksPageVars == <<db_tasks, taskClock, tasksView>>
feedView == <<notifications, unreadCount, feedLoading>>
vars == <<teamStore, teamView, tasksPageVars, feedView, mounted, inflight, answer>>

(***************************************************************************)
(* The store's queries.                                                    *)
(***************************************************************************)
\* user_connections.list({where: {OR: [{requester_id}, {recipient_id}]},
\*                        orderBy: {created_at: 'desc'}})
ListConnectionsOf(u) ==
  Reverse(SelectSeq(db_user_connections,
                    LAMBDA c : c.requester_id = u \/ c.recipient_id = u))

\* a check that lets a declined invitation be sent again
ListExistingOpen(u, e) ==
  SelectSeq(db_user_connections,
            LAMBDA c : /\ c.requester_id = u /\ c.recipient_email = e
                       /\ c.status # "rejected")

\* user_connections.list({where: {AND: [{requester_id}, {recipient_email}]}})
ListExisting(u, e) ==
  SelectSeq(db_user_connections,
            LAMBDA c : c.requester_id = u /\ c.recipient_email = e)

\* the record sendInvite creates: no recipient_id is given
NewConnection(u, e) ==
  [id |-> Len(db_user_connections) + 1,
   requester_id |-> u,
   recipient_email |-> e,
   requester_email |-> EmailOf(u),
   recipient_id |-> NoId,
   status |-> "pending"]

\* the notification addressed to the user who accepted
AcceptedNotificationToSelf(connection, connectionId) ==
  [id |-> Len(db_notifications) + 1,
   user_id |-> connection.recipient_id,
   type |-> "connection_accepted",
   data |-> connectionId,
   read |-> 0]

\* the record the accept branch of respondToRequest creates
AcceptedNotification(connection, connectionId) ==
  [id |-> Len(db_notifications) + 1,
   user_id |-> connection.requester_id,
   type |-> "connection_accepted",
   data |-> connectionId,
   read |-> 0]

(***************************************************************************)
(* loadTeamData's projections of the listed connections.                   *)
(***************************************************************************)
MemberOf(conn, u) ==
  [id |-> IF conn.requester_id = u THEN conn.recipient_id ELSE conn.requester_id,
   email |-> IF conn.requester_id = u THEN conn.recipient_email
                                      ELSE conn.requester_email]

RECURSIVE PushMembers(_, _)
PushMembers(accepted, u) ==
  IF accepted = <<>> THEN <<>>
  ELSE LET m == MemberOf(Head(accepted), u)
       IN  (IF m.id # NoId /\ m.email # NoEmail
              THEN <<[id |-> m.id, email |-> m.email,
                      display_name |-> SplitAtFirst(m.email)]>>
              ELSE <<>>)
           \o PushMembers(Tail(accepted), u)

\* the counterparties of all the listed connections, whatever their status
TeamMembersOfAnyStatus(allConnections, u) == PushMembers(allConnections, u)

\* lines 56-73: the accepted connections' counterparties, in list order
TeamMembersOf(allConnections, u) ==
  PushMembers(SelectSeq(allConnections, LAMBDA c : c.status = "accepted"), u)

\* every pending connection the list returned, the user's own invitations too
PendingOfAnyone(allConnections, u) ==
  SelectSeq(allConnections, LAMBDA c : c.status = "pending")

\* lines 75-79
PendingOf(allConnections, u) ==
  SelectSeq(allConnections,
            LAMBDA c : c.status = "pending" /\ c.recipient_id = u)

(***************************************************************************)
(* Invocations in flight.                                                  *)
(***************************************************************************)
Call(op, u, pc, email, id, accept, captured) ==
  [op |-> op, user |-> u, pc |-> pc, inviteEmail |-> email,
   connectionId |-> id, accept |-> accept, pendingRequests |-> captured]

LoadCall(u) == Call("loadTeamData", u, "list", <<>>, 0, FALSE, <<>>)

Start(call) == inflight (+) SetToBag({call})

Finish(call) == inflight (-) SetToBag({call})
Continue(call, next) == (inflight (-) SetToBag({call})) (+) SetToBag({next})

InFlight == BagToSet(inflight)
CanStart == BagCardinality(inflight) < MaxInflight

\* toast({variant: "destructive"})
IsFailureToast(t) ==
  t \in {"Error: Failed to load team data", "Error: Failed to send invite",
         "Error: Failed to respond to request", "Already Connected",
         "Error: Failed to load tasks", "Error: Failed to create task",
         "Error: Failed to update task", "Error: Failed to delete task"}

\* editingTask === null
NoTask ==
  [id |-> 0, title |-> <<>>, status |-> "todo", priority |-> "medium",
   user_id |-> NoId, assignee_id |-> NoId, assignee_email |-> NoEmail,
   description |-> <<>>]

(***************************************************************************)
(* Initial state: each user's TeamPage is constructed and its mount effect *)
(* has called loadTeamData.  The store holds the invitations left by       *)
(* earlier sessions: pending records whose recipient_id names the user     *)
(* with the invited email (the Connection interface requires the field,    *)
(* and loadTeamData selects on it).                                        *)
(***************************************************************************)
SeedOrder ==
  <<<<"u1", "u2">>, <<"u2", "u1">>, <<"u1", "u1">>, <<"u2", "u2">>>>

SeedConnection(i) ==
  [id |-> i,
   requester_id |-> SeedOrder[i][1],
   recipient_email |-> EmailOf(SeedOrder[i][2]),
   requester_email |-> EmailOf(SeedOrder[i][1]),
   recipient_id |-> SeedOrder[i][2],
   status |-> "pending"]

SeedStores ==
  {[i \in 1..n |-> SeedConnection(i)] : n \in 0..MaxSeed}

\* TeamPage as its useState calls leave it (lines 31-36)
TeamPageConstructed ==
  /\ connections = [u \in Users |-> <<>>]
  /\ teamMembers = [u \in Users |-> <<>>]
  /\ pendingRequests = [u \in Users |-> <<>>]
  /\ inviteEmail = [u \in Users |-> <<>>]
  /\ inviteDialogOpen = [u \in Users |-> FALSE]
  /\ loading = [u \in Users |-> TRUE]

\* no task; TasksPage and TaskDialog as their useState calls leave them
TasksPageConstructed ==
  /\ db_tasks = <<>>
  /\ taskClock = 0
  /\ tasks = [u \in Users |-> <<>>]
  /\ tasksLoading = [u \in Users |-> TRUE]
  /\ isDialogOpen = [u \in Users |-> FALSE]
  /\ editingTask = [u \in Users |-> NoTask]
  /\ assigneeId = [u \in Users |-> NoId]
  /\ dialogTeamMembers = [u \in Users |-> <<>>]
  /\ searchQuery = [u \in Users |-> <<>>]
  /\ statusFilter = [u \in Users |-> "all"]
  /\ priorityFilter = [u \in Users |-> "all"]

\* NotificationCenter as its useState calls leave it (lines 24-26)
FeedConstructed ==
  /\ notifications = [u \in Users |-> <<>>]
  /\ unreadCount = [u \in Users |-> 0]
  /\ feedLoading = [u \in Users |-> TRUE]

TeamInit ==
  /\ db_user_connections \in SeedStores
  /\ db_notifications = <<>>
  /\ emailsSent = <<>>
  /\ TeamPageConstructed
  /\ toast = [u \in Users |-> "none"]
  /\ inflight = SetToBag({LoadCall(u) : u \in Users})
  /\ answer = "none"
  /\ FeedConstructed
  /\ mounted = "TeamPage"
  /\ TasksPageConstructed

(***************************************************************************)
(* TeamPage: loadTeamData (lines 39-91).                                   *)
(***************************************************************************)
LoadTeamData(call, ok) ==
  LET u == call.user
      allConnections == ListConnectionsOf(u)
  IN
  /\ call \in InFlight
  /\ call.op = "loadTeamData"
  /\ IF ok
       THEN /\ connections' = [connections EXCEPT ![u] = allConnections]
            /\ teamMembers' =
                 [teamMembers EXCEPT ![u] = TeamMembersOf(allConnections, u)]
            /\ pendingRequests' =
                 [pendingRequests EXCEPT ![u] = PendingOf(allConnections, u)]
            /\ UNCHANGED toast
       ELSE /\ toast' = [toast EXCEPT ![u] = "Error: Failed to load team data"]
            /\ UNCHANGED <<connections, teamMembers, pendingRequests>>
  /\ loading' = [loading EXCEPT ![u] = FALSE]
  /\ inflight' = Finish(call)
  /\ answer' = IF ok THEN "ok" ELSE "rejected"
  /\ UNCHANGED <<teamStore, inviteEmail, inviteDialogOpen>>
  /\ UNCHANGED <<tasksPageVars, feedView, mounted>>

(***************************************************************************)
(* TeamPage: the invite dialog and sendInvite (lines 97-162).              *)
(***************************************************************************)
SendInvitesInFlight ==
  BagCardinality([c \in {d \in InFlight : d.op = "sendInvite"} |-> inflight[c]])

\* The user opens the invite dialog (lines 220-226), types e (line 242) and
\* presses Send Invite (line 249): sendInvite up to its first await.
SendInviteClick(u, e) ==
  /\ mounted = "TeamPage"
  /\ ~loading[u]
  /\ CanStart
  /\ Len(db_user_connections) + SendInvitesInFlight < MaxConnections
  /\ inviteDialogOpen' = [inviteDialogOpen EXCEPT ![u] = TRUE]
  /\ inviteEmail' = [inviteEmail EXCEPT ![u] = e]
  /\ IF Trim(e) = <<>>
       THEN UNCHANGED inflight
       ELSE inflight' = Start(Call("sendInvite", u, "list", e, 0, FALSE, <<>>))
  /\ answer' = "none"
  /\ UNCHANGED <<teamStore, connections, teamMembers, pendingRequests,
                 loading, toast>>
  /\ UNCHANGED <<tasksPageVars, feedView, mounted>>

\* lines 101-120: the existence check answers
SendInviteList(call, ok) ==
  LET u == call.user
      existingConnection == ListExisting(u, call.inviteEmail)
  IN
  /\ call \in InFlight
  /\ call.op = "sendInvite" /\ call.pc = "list"
  /\ IF ~ok
       THEN /\ toast' = [toast EXCEPT ![u] = "Error: Failed to send invite"]
            /\ inflight' = Finish(call)
       ELSE IF Len(existingConnection) > 0
       THEN /\ toast' = [toast EXCEPT ![u] = "Already Connected"]
            /\ inflight' = Finish(call)
       ELSE /\ inflight' = Continue(call, [call EXCEPT !.pc = "create"])
            /\ UNCHANGED toast
  /\ answer' = IF ok THEN "ok" ELSE "rejected"
  /\ UNCHANGED <<teamStore, connections, teamMembers, pendingRequests,
                 inviteEmail, inviteDialogOpen, loading>>
  /\ UNCHANGED <<tasksPageVars, feedView, mounted>>

\* an email requested without waiting for the answer of the create
AfterCreateNotAwaited(call, ok) ==
  Continue(call, [call EXCEPT !.pc = "email"])

\* lines 123-131 and 154: the create is awaited inside the try, so the email
\* is requested after it was accepted and the catch ends the handler otherwise
AfterCreate(call, ok) ==
  IF ok THEN Continue(call, [call EXCEPT !.pc = "email"]) ELSE Finish(call)

\* lines 122-128: the create answers
SendInviteCreate(call, ok) ==
  LET u == call.user IN
  /\ call \in InFlight
  /\ call.op = "sendInvite" /\ call.pc = "create"
  /\ IF ok
       THEN /\ db_user_connections' =
                 Append(db_user_connections, NewConnection(u, call.inviteEmail))
            /\ UNCHANGED toast
       ELSE /\ toast' = [toast EXCEPT ![u] = "Error: Failed to send invite"]
            /\ UNCHANGED db_user_connections
  /\ inflight' = AfterCreate(call, ok)
  /\ answer' = IF ok THEN "ok" ELSE "rejected"
  /\ UNCHANGED <<db_notifications, emailsSent, connections, teamMembers,
                 pendingRequests, inviteEmail, inviteDialogOpen, loading>>
  /\ UNCHANGED <<tasksPageVars, feedView, mounted>>

\* a catch block that deletes the record the try block created
ConnectionsRolledBack(all, ok) ==
  IF ok THEN all ELSE SubSeq(all, 1, Len(all) - 1)

\* user_connections once the email request has answered: neither the code
\* after it (lines 145-152) nor the catch block (lines 154-161) calls the store
ConnectionsAfterEmail(all, ok) == all

\* lines 130-161: the email request answers; on success the toast, the form
\* reset and the reload
SendInviteEmail(call, ok) ==
  LET u == call.user IN
  /\ call \in InFlight
  /\ call.op = "sendInvite" /\ call.pc = "email"
  /\ IF ok
       THEN /\ emailsSent' = Append(emailsSent, call.inviteEmail)
            /\ toast' = [toast EXCEPT ![u] = "Invite Sent!"]
            /\ inviteEmail' = [inviteEmail EXCEPT ![u] = <<>>]
            /\ inviteDialogOpen' = [inviteDialogOpen EXCEPT ![u] = FALSE]
            /\ inflight' = Continue(call, LoadCall(u))
       ELSE /\ toast' = [toast EXCEPT ![u] = "Error: Failed to send invite"]
            /\ inflight' = Finish(call)
            /\ UNCHANGED <<emailsSent, inviteEmail, inviteDialogOpen>>
  /\ db_user_connections' = ConnectionsAfterEmail(db_user_connections, ok)
  /\ answer' = IF ok THEN "ok" ELSE "rejected"
  /\ UNCHANGED <<db_notifications, connections, teamMembers, pendingRequests,
                 loading>>
  /\ UNCHANGED <<tasksPageVars, feedView, mounted>>

(***************************************************************************)
(* TeamPage: respondToRequest (lines 164-203).                             *)
(***************************************************************************)
AcceptsInFlight ==
  BagCardinality([c \in {d \in InFlight : d.op = "respondToRequest" /\ d.accept}
                    |-> inflight[c]])

\* The Accept and Decline buttons of a listed request (lines 322-346): the
\* handler closes over the pendingRequests of the render that drew them.
RespondClick(u, connectionId, accept) ==
  /\ mounted = "TeamPage"
  /\ ~loading[u]
  /\ \E i \in 1..Len(pendingRequests[u]) : pendingRequests[u][i].id = connectionId
  /\ CanStart
  /\ accept => Len(db_notifications) + AcceptsInFlight < MaxNotifications
  /\ inflight' = Start(Call("respondToRequest", u, "update", <<>>,
                            connectionId, accept, pendingRequests[u]))
  /\ answer' = "none"
  /\ UNCHANGED <<teamStore, teamView>>
  /\ UNCHANGED <<tasksPageVars, feedView, mounted>>

\* pendingRequests.find(req => req.id === connectionId): the matches, first first
Find(requests, connectionId) ==
  SelectSeq(requests, LAMBDA req : req.id = connectionId)

\* lines 168-172: the record as the update leaves it
Responded(conn, u, accept) ==
  [conn EXCEPT !.status = IF accept THEN "accepted" ELSE "rejected",
               !.recipient_id = u]

\* lines 166-172, and 188-193 when no notification is to be written
RespondUpdate(call, ok) ==
  LET u == call.user
      id == call.connectionId
      found == Find(call.pendingRequests, id)
  IN
  /\ call \in InFlight
  /\ call.op = "respondToRequest" /\ call.pc = "update"
  /\ IF ~ok
       THEN /\ toast' = [toast EXCEPT ![u] = "Error: Failed to respond to request"]
            /\ inflight' = Finish(call)
            /\ UNCHANGED db_user_connections
       ELSE /\ db_user_connections' =
                 [db_user_connections EXCEPT
                    ![id] = Responded(@, u, call.accept)]
            /\ IF call.accept /\ found # <<>>
                 THEN /\ inflight' = Continue(call, [call EXCEPT !.pc = "notify"])
                      /\ UNCHANGED toast
                 ELSE /\ toast' = [toast EXCEPT ![u] =
                           IF call.accept THEN "Request Accepted"
                                          ELSE "Request Declined"]
                      /\ inflight' = Continue(call, LoadCall(u))
  /\ answer' = IF ok THEN "ok" ELSE "rejected"
  /\ UNCHANGED <<db_notifications, emailsSent, connections, teamMembers,
                 pendingRequests, inviteEmail, inviteDialogOpen, loading>>
  /\ UNCHANGED <<tasksPageVars, feedView, mounted>>

\* lines 174-193: the notification create answers
RespondNotify(call, ok) ==
  LET u == call.user
      connection == Head(Find(call.pendingRequests, call.connectionId))
  IN
  /\ call \in InFlight
  /\ call.op = "respondToRequest" /\ call.pc = "notify"
  /\ IF ok
       THEN /\ db_notifications' =
                 Append(db_notifications,
                        AcceptedNotification(connection, call.connectionId))
            /\ toast' = [toast EXCEPT ![u] = "Request Accepted"]
            /\ inflight' = Continue(call, LoadCall(u))
       ELSE /\ toast' = [toast EXCEPT ![u] = "Error: Failed to respond to request"]
            /\ inflight' = Finish(call)
            /\ UNCHANGED db_notifications
  /\ answer' = IF ok THEN "ok" ELSE "rejected"
  /\ UNCHANGED <<db_user_connections, emailsSent, connections, teamMembers,
                 pendingRequests, inviteEmail, inviteDialogOpen, loading>>
  /\ UNCHANGED <<tasksPageVars, feedView, mounted>>

\* the steps of the invocations in flight, and the Accept and Decline buttons
TeamSteps ==
  \/ \E call \in InFlight, ok \in BOOLEAN : LoadTeamData(call, ok)
  \/ \E call \in InFlight, ok \in BOOLEAN : SendInviteList(call, ok)
  \/ \E call \in InFlight, ok \in BOOLEAN : SendInviteCreate(call, ok)
  \/ \E call \in InFlight, ok \in BOOLEAN : SendInviteEmail(call, ok)
  \/ \E u \in Users, id \in 1..MaxConnections, accept \in BOOLEAN :
       RespondClick(u, id, accept)
  \/ \E call \in InFlight, ok \in BOOLEAN : RespondUpdate(call, ok)
  \/ \E call \in InFlight, ok \in BOOLEAN : RespondNotify(call, ok)

TeamNext ==
  \/ TeamSteps
  \/ \E u \in Users, e \in InviteInputs : SendInviteClick(u, e)

SpecTeam == TeamInit /\ [][TeamNext]_vars

\* The same, with each user's sendInvite calls run one after another: Send
\* Invite is pressed again only when the user's earlier sendInvite has ended.
SendInviteClickInTurn(u, e) ==
  /\ \A call \in InFlight : ~(call.op = "sendInvite" /\ call.user = u)
  /\ SendInviteClick(u, e)

TeamNextInTurn ==
  \/ TeamSteps
  \/ \E u \in Users, e \in InviteInputs : SendInviteClickInTurn(u, e)

SpecTeamInTurn == TeamInit /\ [][TeamNextInTurn]_vars

(***************************************************************************)
(* TasksPage and its TaskDialog (src/components/TasksPage.tsx).            *)
(*                                                                         *)
(* A task record carries id, title, status, priority, user_id and, once an *)
(* update has written them, assignee_id and assignee_email; description   *)
(* is '' on the records the dialog of this page creates (line 80).         *)
(* due_date, project_id and the timestamps are carried through unread by   *)
(* the handlers and are left out.                                          *)
(***************************************************************************)
Statuses == {"todo", "in_progress", "done"}

\* the status and the priority chosen in the dialog
DialogStatuses == {"todo", "done"}
DialogPriorities == {"high"}

\* what a user may type as a title: blank, and text with a space before it
TitleInputs == {<<" ">>, <<" ", "T">>}

\* a field of the payload that is undefined or ''
NoValue == ""

\* tasks.list({where: {user_id}, orderBy: {created_at: 'desc'}})
ListTasksOf(u) == Reverse(SelectSeq(db_tasks, LAMBDA t : t.user_id = u))

\* a list request without the status in its predicate
ListTouchingConnectionsOf(u) ==
  SelectSeq(db_user_connections,
            LAMBDA c : c.requester_id = u \/ c.recipient_id = u)

\* user_connections.list({where: {AND: [{OR: [{requester_id}, {recipient_id}]},
\*                                      {status: 'accepted'}]}})
ListAcceptedConnectionsOf(u) ==
  SelectSeq(db_user_connections,
            LAMBDA c : /\ (c.requester_id = u \/ c.recipient_id = u)
                       /\ c.status = "accepted")

\* the record with status and priority as the payload has them
NewTaskAsGiven(taskData, u) ==
  [id |-> taskClock + 1,
   title |-> taskData.title,
   status |-> taskData.status,
   priority |-> taskData.priority,
   user_id |-> u,
   assignee_id |-> NoId,
   assignee_email |-> NoEmail,
   description |-> <<>>]

\* the record handleCreateTask hands to tasks.create (lines 77-88)
NewTask(taskData, u) ==
  [id |-> taskClock + 1,
   title |-> taskData.title,
   status |-> IF "status" \in taskData.keys /\ taskData.status # NoValue
                THEN taskData.status ELSE "todo",
   priority |-> IF "priority" \in taskData.keys /\ taskData.priority # NoValue
                  THEN taskData.priority ELSE "medium",
   user_id |-> u,
   assignee_id |-> NoId,
   assignee_email |-> NoEmail,
   description |-> <<>>]

\* tasks.update(taskId, {...updates}): the fields the request carries; a key
\* whose value is undefined is not serialised
Updated(task, updates) ==
  [task EXCEPT
     !.title = IF "title" \in updates.keys THEN updates.title ELSE @,
     !.status = IF "status" \in updates.keys THEN updates.status ELSE @,
     !.priority = IF "priority" \in updates.keys THEN updates.priority ELSE @,
     !.assignee_id = IF "assignee_id" \in updates.keys /\ updates.assignee_id # NoId
                       THEN updates.assignee_id ELSE @,
     !.assignee_email =
        IF "assignee_email" \in updates.keys /\ updates.assignee_email # NoEmail
          THEN updates.assignee_email ELSE @]

\* { ...task, ...updates } (line 113): every key of updates, undefined too
Patched(task, updates) ==
  [task EXCEPT
     !.title = IF "title" \in updates.keys THEN updates.title ELSE @,
     !.status = IF "status" \in updates.keys THEN updates.status ELSE @,
     !.priority = IF "priority" \in updates.keys THEN updates.priority ELSE @,
     !.assignee_id = IF "assignee_id" \in updates.keys
                       THEN updates.assignee_id ELSE @,
     !.assignee_email = IF "assignee_email" \in updates.keys
                          THEN updates.assignee_email ELSE @]

Index(records, id) == CHOOSE i \in 1..Len(records) : records[i].id = id
Has(records, id) == \E i \in 1..Len(records) : records[i].id = id

\* the payload TaskDialog.handleSave builds (lines 518-528)
DialogPayload(title, status, priority, assignee, members) ==
  LET found == SelectSeq(members, LAMBDA member : member.id = assignee)
  IN  [keys |-> {"title", "status", "priority", "assignee_id", "assignee_email"},
       title |-> Trim(title),
       status |-> status,
       priority |-> priority,
       assignee_id |-> assignee,
       assignee_email |-> IF found # <<>> THEN Head(found).email ELSE NoEmail]

\* handleStatusChange (lines 148-150)
StatusPayload(newStatus) ==
  [keys |-> {"status"}, title |-> <<>>, status |-> newStatus,
   priority |-> NoValue, assignee_id |-> NoId, assignee_email |-> NoEmail]

NoPayload == StatusPayload(NoValue)

TaskCall(op, u, pc, taskId, taskData, fromDialog) ==
  [op |-> op, user |-> u, pc |-> pc, taskId |-> taskId, taskData |-> taskData,
   fromDialog |-> fromDialog]

LoadTasksCall(u) == TaskCall("loadTasks", u, "list", 0, NoPayload, FALSE)
LoadTeamMembersCall(u) == TaskCall("loadTeamMembers", u, "list", 0, NoPayload, FALSE)

\* TaskDialog's loading flag: its handleSave awaits onSave
Saving(u) == \E call \in InFlight : call.user = u /\ call.fromDialog

\* the accepted connection the task dialog draws its assignees from
AcceptedSeed == [SeedConnection(1) EXCEPT !.status = "accepted"]

TasksInit ==
  /\ db_user_connections = <<AcceptedSeed>>
  /\ db_notifications = <<>>
  /\ emailsSent = <<>>
  /\ TeamPageConstructed
  /\ toast = [u \in Users |-> "none"]
  /\ TasksPageConstructed
  /\ FeedConstructed
  /\ mounted = "TasksPage"
  /\ inflight = SetToBag({LoadTasksCall(u) : u \in Users})
  /\ answer = "none"

\* loadTasks (lines 50-68)
LoadTasks(call, ok) ==
  LET u == call.user IN
  /\ call \in InFlight
  /\ call.op = "loadTasks"
  /\ IF ok
       THEN /\ tasks' = [tasks EXCEPT ![u] = ListTasksOf(u)]
            /\ UNCHANGED toast
       ELSE /\ toast' = [toast EXCEPT ![u] = "Error: Failed to load tasks"]
            /\ UNCHANGED tasks
  /\ tasksLoading' = [tasksLoading EXCEPT ![u] = FALSE]
  /\ inflight' = Finish(call)
  /\ answer' = IF ok THEN "ok" ELSE "rejected"
  /\ UNCHANGED <<teamStore, connections, teamMembers, pendingRequests,
                 inviteEmail, inviteDialogOpen, loading, db_tasks, taskClock,
                 isDialogOpen, editingTask, assigneeId, dialogTeamMembers,
                 filterView, feedView, mounted>>

\* New Task (lines 217-220) with task = NoTask, Edit (lines 342-347) with a
\* listed task: the dialog opens, its effects set the fields from the task
\* (lines 495-511) and call loadTeamMembers (lines 489-493).
OpenTaskDialog(u, task) ==
  /\ mounted = "TasksPage"
  /\ ~tasksLoading[u]
  /\ ~isDialogOpen[u]
  /\ CanStart
  /\ isDialogOpen' = [isDialogOpen EXCEPT ![u] = TRUE]
  /\ editingTask' = [editingTask EXCEPT ![u] = task]
  /\ assigneeId' = [assigneeId EXCEPT ![u] =
                      IF task.id = 0 THEN NoId ELSE task.assignee_id]
  /\ inflight' = Start(LoadTeamMembersCall(u))
  /\ answer' = "none"
  /\ UNCHANGED <<teamStore, teamView, db_tasks, taskClock, tasks, tasksLoading, filterView,
                 dialogTeamMembers, feedView, mounted>>

\* TaskDialog.loadTeamMembers (lines 448-487)
LoadTeamMembers(call, ok) ==
  LET u == call.user IN
  /\ call \in InFlight
  /\ call.op = "loadTeamMembers"
  /\ dialogTeamMembers' =
       IF ok THEN [dialogTeamMembers EXCEPT
                     ![u] = PushMembers(ListAcceptedConnectionsOf(u), u)]
             ELSE dialogTeamMembers
  /\ inflight' = Finish(call)
  /\ answer' = IF ok THEN "ok" ELSE "rejected"
  /\ UNCHANGED <<teamStore, teamView, db_tasks, taskClock, tasks, tasksLoading, filterView,
                 isDialogOpen, editingTask, assigneeId, feedView, mounted>>

\* the Assign To select (lines 573-609): Unassigned, or a listed member
SelectAssignee(u, id) ==
  /\ isDialogOpen[u]
  /\ ~Saving(u)
  /\ id = NoId \/ Has(dialogTeamMembers[u], id)
  /\ assigneeId[u] # id
  /\ assigneeId' = [assigneeId EXCEPT ![u] = id]
  /\ answer' = "none"
  /\ UNCHANGED <<teamStore, teamView, db_tasks, taskClock, tasks, tasksLoading, filterView,
                 isDialogOpen, editingTask, dialogTeamMembers, feedView, mounted, inflight>>

\* onOpenChange(false) (lines 375-378) and the field reset that follows it
DialogClosed(u) ==
  /\ isDialogOpen' = [isDialogOpen EXCEPT ![u] = FALSE]
  /\ editingTask' = [editingTask EXCEPT ![u] = NoTask]
  /\ assigneeId' = [assigneeId EXCEPT ![u] = NoId]

\* Cancel (lines 660-662)
CloseTaskDialog(u) ==
  /\ isDialogOpen[u]
  /\ ~Saving(u)
  /\ DialogClosed(u)
  /\ answer' = "none"
  /\ UNCHANGED <<teamStore, teamView, db_tasks, taskClock, tasks, tasksLoading, filterView,
                 dialogTeamMembers, feedView, mounted, inflight>>

CreatesInFlight ==
  BagCardinality([c \in {d \in InFlight : d.op = "handleCreateTask"} |-> inflight[c]])

\* The user types the title, picks status and priority and presses the save
\* button, which is disabled while the title is blank or a save is awaited
\* (lines 666-668): TaskDialog.handleSave up to its await of onSave, which is
\* handleUpdateTask for the task being edited and handleCreateTask otherwise
\* (lines 380-383).
DialogSave(u, title, status, priority) ==
  LET data == DialogPayload(title, status, priority, assigneeId[u],
                            dialogTeamMembers[u])
  IN
  /\ isDialogOpen[u]
  /\ ~Saving(u)
  /\ Trim(title) # <<>>
  /\ CanStart
  /\ IF editingTask[u].id # 0
       THEN inflight' = Start(TaskCall("handleUpdateTask", u, "update",
                                       editingTask[u].id, data, TRUE))
       ELSE /\ taskClock + CreatesInFlight < MaxTasks
            /\ inflight' = Start(TaskCall("handleCreateTask", u, "create",
                                          0, data, TRUE))
  /\ answer' = "none"
  /\ UNCHANGED <<teamStore, teamView, tasksPageVars, feedView, mounted>>

\* what follows the handler in TaskDialog.handleSave (line 529)
AfterSave(call) ==
  IF call.fromDialog
    THEN DialogClosed(call.user)
    ELSE UNCHANGED <<isDialogOpen, editingTask, assigneeId>>

\* handleCreateTask (lines 74-103)
HandleCreateTask(call, ok) ==
  LET u == call.user
      newTask == NewTask(call.taskData, u)
  IN
  /\ call \in InFlight
  /\ call.op = "handleCreateTask"
  /\ IF ok
       THEN /\ db_tasks' = Append(db_tasks, newTask)
            /\ taskClock' = taskClock + 1
            /\ tasks' = [tasks EXCEPT ![u] = <<newTask>> \o @]
            /\ toast' = [toast EXCEPT ![u] = "Success: Task created"]
       ELSE /\ toast' = [toast EXCEPT ![u] = "Error: Failed to create task"]
            /\ UNCHANGED <<db_tasks, taskClock, tasks>>
  /\ AfterSave(call)
  /\ inflight' = Finish(call)
  /\ answer' = IF ok THEN "ok" ELSE "rejected"
  /\ UNCHANGED <<teamStore, connections, teamMembers, pendingRequests,
                 inviteEmail, inviteDialogOpen, loading, tasksLoading, filterView,
                 dialogTeamMembers, feedView, mounted>>

\* the Mark as ... items of a listed task (lines 348-356)
StatusChangeClick(u, taskId, newStatus) ==
  /\ mounted = "TasksPage"
  /\ ~tasksLoading[u]
  /\ Has(tasks[u], taskId)
  /\ CanStart
  /\ inflight' = Start(TaskCall("handleUpdateTask", u, "update", taskId,
                                StatusPayload(newStatus), FALSE))
  /\ answer' = "none"
  /\ UNCHANGED <<teamStore, teamView, tasksPageVars, feedView, mounted>>

\* setTasks applied as soon as the update is requested, answered or not
TasksUpdatedEarly(list, id, updates, ok) ==
  [i \in 1..Len(list) |->
     IF list[i].id = id THEN Patched(list[i], updates) ELSE list[i]]

\* setTasks(prev => prev.map(...)) (lines 111-115), which a rejected update
\* never reaches
TasksAfterUpdate(list, id, updates, ok) ==
  IF ok
    THEN [i \in 1..Len(list) |->
            IF list[i].id = id THEN Patched(list[i], updates) ELSE list[i]]
    ELSE list

\* handleUpdateTask (lines 105-128); the store rejects an id it does not hold
HandleUpdateTask(call, ok) ==
  LET u == call.user
      id == call.taskId
  IN
  /\ call \in InFlight
  /\ call.op = "handleUpdateTask"
  /\ ok => Has(db_tasks, id)
  /\ db_tasks' = IF ok
                   THEN [db_tasks EXCEPT ![Index(db_tasks, id)] =
                           Updated(@, call.taskData)]
                   ELSE db_tasks
  /\ tasks' = [tasks EXCEPT ![u] = TasksAfterUpdate(@, id, call.taskData, ok)]
  /\ toast' = [toast EXCEPT ![u] = IF ok THEN "Success: Task updated"
                                         ELSE "Error: Failed to update task"]
  /\ AfterSave(call)
  /\ inflight' = Finish(call)
  /\ answer' = IF ok THEN "ok" ELSE "rejected"
  /\ UNCHANGED <<teamStore, connections, teamMembers, pendingRequests,
                 inviteEmail, inviteDialogOpen, loading, taskClock, tasksLoading, filterView,
                 dialogTeamMembers, feedView, mounted>>

\* the Delete item of a listed task (lines 357-362)
DeleteClick(u, taskId) ==
  /\ mounted = "TasksPage"
  /\ ~tasksLoading[u]
  /\ Has(tasks[u], taskId)
  /\ CanStart
  /\ inflight' = Start(TaskCall("handleDeleteTask", u, "delete", taskId,
                                NoPayload, FALSE))
  /\ answer' = "none"
  /\ UNCHANGED <<teamStore, teamView, tasksPageVars, feedView, mounted>>

\* a catch block that only logs: the toast on the screen stays
DeleteToastOnSuccessOnly(shown, ok) ==
  IF ok THEN "Success: Task deleted" ELSE shown

\* the toast of handleDeleteTask (lines 135-144)
DeleteToast(shown, ok) ==
  IF ok THEN "Success: Task deleted" ELSE "Error: Failed to delete task"

\* a list emptied by the deletion
WithoutAnyTask(list, id) == <<>>

\* prev.filter(task => task.id !== taskId) (line 133)
WithoutTask(list, id) == SelectSeq(list, LAMBDA task : task.id # id)

\* handleDeleteTask (lines 130-146); the store rejects an id it does not hold
HandleDeleteTask(call, ok) ==
  LET u == call.user
      id == call.taskId
  IN
  /\ call \in InFlight
  /\ call.op = "handleDeleteTask"
  /\ ok => Has(db_tasks, id)
  /\ IF ok
       THEN /\ db_tasks' = SelectSeq(db_tasks, LAMBDA t : t.id # id)
            /\ tasks' = [tasks EXCEPT ![u] = WithoutTask(@, id)]
       ELSE UNCHANGED <<db_tasks, tasks>>
  /\ toast' = [toast EXCEPT ![u] = DeleteToast(@, ok)]
  /\ inflight' = Finish(call)
  /\ answer' = IF ok THEN "ok" ELSE "rejected"
  /\ UNCHANGED <<teamStore, connections, teamMembers, pendingRequests,
                 inviteEmail, inviteDialogOpen, loading, taskClock, tasksLoading, filterView,
                 isDialogOpen, editingTask, assigneeId, dialogTeamMembers,
                 feedView, mounted>>

ListedTasks(u) == {tasks[u][i] : i \in 1..Len(tasks[u])}

TasksNext ==
  \/ \E call \in InFlight, ok \in BOOLEAN : LoadTasks(call, ok)
  \/ \E u \in Users : \E task \in {NoTask} \cup ListedTasks(u) :
       OpenTaskDialog(u, task)
  \/ \E call \in InFlight, ok \in BOOLEAN : LoadTeamMembers(call, ok)
  \/ \E u \in Users, id \in {NoId} \cup Users : SelectAssignee(u, id)
  \/ \E u \in Users : CloseTaskDialog(u)
  \/ \E u \in Users, title \in TitleInputs, status \in DialogStatuses,
        priority \in DialogPriorities : DialogSave(u, title, status, priority)
  \/ \E call \in InFlight, ok \in BOOLEAN : HandleCreateTask(call, ok)
  \/ \E u \in Users, taskId \in 1..MaxTasks, newStatus \in Statuses :
       StatusChangeClick(u, taskId, newStatus)
  \/ \E call \in InFlight, ok \in BOOLEAN : HandleUpdateTask(call, ok)
  \/ \E u \in Users, taskId \in 1..MaxTasks : DeleteClick(u, taskId)
  \/ \E call \in InFlight, ok \in BOOLEAN : HandleDeleteTask(call, ok)

SpecTasks == TasksInit /\ [][TasksNext]_vars

(***************************************************************************)
(* NotificationCenter (src/components/NotificationCenter.tsx).             *)
(*                                                                         *)
(* The feed is open in the sessions of FeedUsers.  The records it shows    *)
(* are the ones respondToRequest creates, written by the sessions of the   *)
(* other users while the feed is open.                                     *)
(***************************************************************************)
FeedUsers == {"u1"}

\* limit: 50 (line 36)
FeedLimit == 50

Min(a, b) == IF a < b THEN a ELSE b

\* the same query without its limit
ListNotificationsUnlimited(u) ==
  Reverse(SelectSeq(db_notifications, LAMBDA n : n.user_id = u))

\* notifications.list({where: {user_id}, orderBy: {created_at: 'desc'}, limit: 50})
ListNotificationsOf(u) ==
  LET all == Reverse(SelectSeq(db_notifications, LAMBDA n : n.user_id = u))
  IN  SubSeq(all, 1, Min(Len(all), FeedLimit))

\* userNotifications.filter(n => Number(n.read) === 0) (lines 40, 76)
Unread(list) == SelectSeq(list, LAMBDA n : n.read = 0)

FeedCall(op, u, pc, notificationId, unreadNotifications) ==
  [op |-> op, user |-> u, pc |-> pc, notificationId |-> notificationId,
   unreadNotifications |-> unreadNotifications, userNotifications |-> <<>>]

LoadNotificationsCall(u) == FeedCall("loadNotifications", u, "list", 0, <<>>)

\* the connections whose acceptance the feed reports
FeedConnections ==
  <<[SeedConnection(1) EXCEPT !.status = "accepted"],
    [SeedConnection(2) EXCEPT !.status = "accepted"]>>

FeedInit ==
  /\ db_user_connections = FeedConnections
  /\ db_notifications = <<>>
  /\ emailsSent = <<>>
  /\ TeamPageConstructed
  /\ toast = [u \in Users |-> "none"]
  /\ TasksPageConstructed
  /\ FeedConstructed
  /\ mounted = "NotificationCenter"
  /\ inflight = SetToBag({LoadNotificationsCall(u) : u \in FeedUsers})
  /\ answer = "none"

\* notifications.create of respondToRequest (part_000 lines 178-186), issued
\* by the session that accepted connection connectionId
NotificationCreated(connectionId) ==
  /\ mounted = "NotificationCenter"
  /\ Len(db_notifications) < MaxNotifications
  /\ db_notifications' =
       Append(db_notifications,
              AcceptedNotification(db_user_connections[connectionId], connectionId))
  /\ answer' = "none"
  /\ UNCHANGED <<db_user_connections, emailsSent, teamView, tasksPageVars,
                 feedView, mounted, inflight>>

\* an interval that teardown leaves running
TimerNeverCleared == TRUE

\* the interval set at mount runs until the effect's cleanup clears it
\* (lines 52-54)
TimerRunning == mounted = "NotificationCenter"

\* the feed is torn down: the cleanup of the mount effect (line 54); the
\* calls in flight go on to their end
FeedTeardown ==
  /\ mounted = "NotificationCenter"
  /\ mounted' = "none"
  /\ answer' = "none"
  /\ UNCHANGED <<teamStore, teamView, tasksPageVars, feedView, inflight>>

\* the interval of the mount effect fires (lines 52-53)
PollTick(u) ==
  /\ TimerRunning
  /\ CanStart
  /\ \A call \in InFlight : call.op # "loadNotifications"
  /\ inflight' = Start(LoadNotificationsCall(u))
  /\ answer' = "none"
  /\ UNCHANGED <<teamStore, teamView, tasksPageVars, feedView, mounted>>

\* The store serves the list request of loadNotifications (lines 33-37)
\* or rejects it; on rejection the handler ends in its catch and finally
\* (lines 42-46).
NotificationsListed(call, ok) ==
  LET u == call.user IN
  /\ call \in InFlight
  /\ call.op = "loadNotifications"
  /\ call.pc = "list"
  /\ IF ok
       THEN /\ inflight' = Continue(call,
                 [call EXCEPT !.pc = "listed",
                              !.userNotifications = ListNotificationsOf(u)])
            /\ answer' = "none"
            /\ UNCHANGED feedLoading
       ELSE /\ inflight' = Finish(call)
            /\ answer' = "rejected"
            /\ feedLoading' = [feedLoading EXCEPT ![u] = FALSE]
  /\ UNCHANGED <<teamStore, teamView, tasksPageVars, notifications, unreadCount,
                 mounted>>

\* loadNotifications from the answer of the list request to its end
\* (lines 39-46)
LoadNotifications(call) ==
  LET u == call.user IN
  /\ call \in InFlight
  /\ call.op = "loadNotifications"
  /\ call.pc = "listed"
  /\ notifications' = [notifications EXCEPT ![u] = call.userNotifications]
  /\ unreadCount' = [unreadCount EXCEPT
                       ![u] = Len(Unread(call.userNotifications))]
  /\ feedLoading' = [feedLoading EXCEPT ![u] = FALSE]
  /\ inflight' = Finish(call)
  /\ answer' = "ok"
  /\ UNCHANGED <<teamStore, teamView, tasksPageVars, mounted>>

\* a card that shows as unread is clicked (line 159)
MarkAsReadClick(u, notificationId) ==
  /\ mounted = "NotificationCenter"
  /\ CanStart
  /\ \E i \in 1..Len(notifications[u]) :
       /\ notifications[u][i].id = notificationId
       /\ notifications[u][i].read = 0
  /\ inflight' = Start(FeedCall("markAsRead", u, "update", notificationId, <<>>))
  /\ answer' = "none"
  /\ UNCHANGED <<teamStore, teamView, tasksPageVars, feedView, mounted>>

\* an update that flips the flag instead of setting it
ReadToggled(id) ==
  [i \in 1..Len(db_notifications) |->
     IF db_notifications[i].id = id
       THEN [db_notifications[i] EXCEPT !.read = 1 - @]
       ELSE db_notifications[i]]

\* notifications.update(id, {read: 1})
MarkedRead(id) ==
  [i \in 1..Len(db_notifications) |->
     IF db_notifications[i].id = id
       THEN [db_notifications[i] EXCEPT !.read = 1]
       ELSE db_notifications[i]]

\* markAsRead (lines 57-71)
MarkAsRead(call, ok) ==
  LET u == call.user
      id == call.notificationId
  IN
  /\ call \in InFlight
  /\ call.op = "markAsRead"
  /\ IF ok
       THEN /\ db_notifications' = MarkedRead(id)
            /\ notifications' = [notifications EXCEPT ![u] =
                 [i \in 1..Len(@) |->
                    IF @[i].id = id THEN [@[i] EXCEPT !.read = 1] ELSE @[i]]]
            /\ unreadCount' = [unreadCount EXCEPT ![u] =
                                 IF @ - 1 > 0 THEN @ - 1 ELSE 0]
       ELSE UNCHANGED <<db_notifications, notifications, unreadCount>>
  /\ inflight' = Finish(call)
  /\ answer' = IF ok THEN "ok" ELSE "rejected"
  /\ UNCHANGED <<db_user_connections, emailsSent, teamView, tasksPageVars,
                 feedLoading, mounted>>

\* Mark all read, shown while unreadCount > 0 (lines 137-142): markAllAsRead
\* up to its await of auth.me, holding the list of this render
MarkAllAsReadClick(u) ==
  /\ mounted = "NotificationCenter"
  /\ CanStart
  /\ unreadCount[u] > 0
  /\ \A call \in InFlight : call.op # "markAllAsRead"
  /\ inflight' = Start(FeedCall("markAllAsRead", u, "me", 0,
                                Unread(notifications[u])))
  /\ answer' = "none"
  /\ UNCHANGED <<teamStore, teamView, tasksPageVars, feedView, mounted>>

\* the list marked read with the count left as it was
AllMarkedReadListOnly(u) ==
  /\ notifications' = [notifications EXCEPT ![u] =
       [i \in 1..Len(@) |-> [@[i] EXCEPT !.read = 1]]]
  /\ UNCHANGED unreadCount
  /\ toast' = [toast EXCEPT ![u] = "All notifications marked as read"]

\* what follows the loop of markAllAsRead (lines 84-91)
AllMarkedRead(u) ==
  /\ notifications' = [notifications EXCEPT ![u] =
       [i \in 1..Len(@) |-> [@[i] EXCEPT !.read = 1]]]
  /\ unreadCount' = [unreadCount EXCEPT ![u] = 0]
  /\ toast' = [toast EXCEPT ![u] = "All notifications marked as read"]

\* markAllAsRead from the answer of auth.me (line 75) or of one update of its
\* loop (lines 78-82) to the next await or to its end
MarkAllAsRead(call, ok) ==
  LET u == call.user
      rest == IF call.pc = "me" THEN call.unreadNotifications
                                ELSE Tail(call.unreadNotifications)
  IN
  /\ call \in InFlight
  /\ call.op = "markAllAsRead"
  /\ db_notifications' =
       IF ok /\ call.pc = "update"
         THEN MarkedRead(Head(call.unreadNotifications).id)
         ELSE db_notifications
  /\ IF ~ok
       THEN /\ inflight' = Finish(call)
            /\ UNCHANGED <<notifications, unreadCount, toast>>
       ELSE IF rest = <<>>
              THEN /\ inflight' = Finish(call)
                   /\ AllMarkedRead(u)
              ELSE /\ inflight' = Continue(call,
                        [call EXCEPT !.pc = "update", !.unreadNotifications = rest])
                   /\ UNCHANGED <<notifications, unreadCount, toast>>
  /\ answer' = IF ok THEN "ok" ELSE "rejected"
  /\ UNCHANGED <<db_user_connections, emailsSent, connections, teamMembers,
                 pendingRequests, inviteEmail, inviteDialogOpen, loading,
                 tasksPageVars, feedLoading, mounted>>

FeedNext ==
  \/ \E connectionId \in 1..Len(FeedConnections) : NotificationCreated(connectionId)
  \/ \E u \in FeedUsers : PollTick(u)
  \/ \E call \in InFlight, ok \in BOOLEAN : NotificationsListed(call, ok)
  \/ \E call \in InFlight : LoadNotifications(call)
  \/ \E u \in FeedUsers, notificationId \in 1..MaxNotifications :
       MarkAsReadClick(u, notificationId)
  \/ \E call \in InFlight, ok \in BOOLEAN : MarkAsRead(call, ok)
  \/ \E u \in FeedUsers : MarkAllAsReadClick(u)
  \/ \E call \in InFlight, ok \in BOOLEAN : MarkAllAsRead(call, ok)
  \/ FeedTeardown

SpecFeed == FeedInit /\ [][FeedNext]_vars

\* The timer keeps firing while it runs, every awaited call is answered, and
\* the store does not reject list requests for ever.
FeedIsServed ==
  /\ \A u \in FeedUsers : SF_vars(PollTick(u))
  /\ SF_vars(\E call \in InFlight : NotificationsListed(call, TRUE))
  /\ WF_vars(\E call \in InFlight : LoadNotifications(call))
  /\ WF_vars(\E call \in InFlight, ok \in BOOLEAN : MarkAsRead(call, ok))
  /\ WF_vars(\E call \in InFlight, ok \in BOOLEAN : MarkAllAsRead(call, ok))

SpecFeedServed == FeedInit /\ [][FeedNext]_vars /\ FeedIsServed

(***************************************************************************)
(* handleCreateTask called with any Partial<Task> (line 74).  The dialog   *)
(* always passes a status and a priority; the defaults of lines 80-81 are  *)
(* reached only by a payload that leaves them out.                         *)
(***************************************************************************)
CreatePayloads ==
  {[keys |-> {"title"} \cup given,
    title |-> <<"T">>,
    status |-> IF "status" \in given THEN "done" ELSE NoValue,
    priority |-> IF "priority" \in given THEN "high" ELSE NoValue,
    assignee_id |-> IF "assignee_id" \in given THEN "u2" ELSE NoId,
    assignee_email |-> IF "assignee_id" \in given THEN EmailOf("u2") ELSE NoEmail] :
     given \in SUBSET {"status", "priority", "assignee_id"}}

HandleCreateTaskCall(u, taskData) ==
  /\ mounted = "TasksPage"
  /\ CanStart
  /\ taskClock + CreatesInFlight < MaxTasks
  /\ inflight' = Start(TaskCall("handleCreateTask", u, "create", 0, taskData, FALSE))
  /\ answer' = "none"
  /\ UNCHANGED <<teamStore, teamView, tasksPageVars, feedView, mounted>>

CreateNext ==
  \/ \E call \in InFlight, ok \in BOOLEAN : LoadTasks(call, ok)
  \/ \E u \in Users, taskData \in CreatePayloads : HandleCreateTaskCall(u, taskData)
  \/ \E call \in InFlight, ok \in BOOLEAN : HandleCreateTask(call, ok)

SpecCreate == TasksInit /\ [][CreateNext]_vars

(***************************************************************************)
(* The feed opened on a store that already holds up to MaxStored           *)
(* notifications, more than the limit of the list request: every seventh   *)
(* belongs to u2, the others to u1, every second one is read.              *)
(***************************************************************************)
StoredNotification(i) ==
  [id |-> i,
   user_id |-> IF i % 7 = 0 THEN "u2" ELSE "u1",
   type |-> "connection_accepted",
   data |-> 1,
   read |-> IF i % 2 = 0 THEN 1 ELSE 0]

StoredFeeds == {[i \in 1..n |-> StoredNotification(i)] : n \in 0..MaxStored}

LongFeedInit ==
  /\ db_user_connections = FeedConnections
  /\ db_notifications \in StoredFeeds
  /\ emailsSent = <<>>
  /\ TeamPageConstructed
  /\ toast = [u \in Users |-> "none"]
  /\ TasksPageConstructed
  /\ FeedConstructed
  /\ mounted = "NotificationCenter"
  /\ inflight = SetToBag({LoadNotificationsCall(u) : u \in FeedUsers})
  /\ answer = "none"

LongFeedNext ==
  \/ \E u \in FeedUsers : PollTick(u)
  \/ \E call \in InFlight, ok \in BOOLEAN : NotificationsListed(call, ok)
  \/ \E call \in InFlight : LoadNotifications(call)

SpecLongFeed == LongFeedInit /\ [][LongFeedNext]_vars

(***************************************************************************)
(* One user at the TeamPage or the TasksPage, who presses a button again   *)
(* only when the call the same press started earlier has ended, with every *)
(* awaited external call answered in the end (accepted or rejected).       *)
(***************************************************************************)
Actor == "u1"

SendingInvite(e) ==
  \E call \in InFlight : call.op = "sendInvite" /\ call.inviteEmail = e

Responding(connectionId, accept) ==
  \E call \in InFlight : /\ call.op = "respondToRequest"
                         /\ call.connectionId = connectionId
                         /\ call.accept = accept

ChangingStatus(taskId, newStatus) ==
  \E call \in InFlight : /\ call.op = "handleUpdateTask"
                         /\ ~call.fromDialog
                         /\ call.taskId = taskId
                         /\ call.taskData.status = newStatus

Deleting(taskId) ==
  \E call \in InFlight : call.op = "handleDeleteTask" /\ call.taskId = taskId

\* the step of a mutation handler that the answer to its awaited call starts
MutationStep(call, ok) ==
  \/ SendInviteList(call, ok)
  \/ SendInviteCreate(call, ok)
  \/ SendInviteEmail(call, ok)
  \/ RespondUpdate(call, ok)
  \/ RespondNotify(call, ok)
  \/ HandleCreateTask(call, ok)
  \/ HandleUpdateTask(call, ok)
  \/ HandleDeleteTask(call, ok)

ActorNext ==
  \/ \E call \in InFlight, ok \in BOOLEAN : MutationStep(call, ok)
  \/ \E call \in InFlight, ok \in BOOLEAN : LoadTeamData(call, ok)
  \/ \E call \in InFlight, ok \in BOOLEAN : LoadTasks(call, ok)
  \/ \E call \in InFlight, ok \in BOOLEAN : LoadTeamMembers(call, ok)
  \/ \E e \in InviteInputs : ~SendingInvite(e) /\ SendInviteClick(Actor, e)
  \/ \E id \in 1..MaxConnections, accept \in BOOLEAN :
       ~Responding(id, accept) /\ RespondClick(Actor, id, accept)
  \/ \E task \in {NoTask} \cup ListedTasks(Actor) : OpenTaskDialog(Actor, task)
  \/ \E id \in {NoId} \cup Users : SelectAssignee(Actor, id)
  \/ CloseTaskDialog(Actor)
  \/ \E title \in TitleInputs, status \in DialogStatuses,
        priority \in DialogPriorities : DialogSave(Actor, title, status, priority)
  \/ \E taskId \in 1..MaxTasks, newStatus \in Statuses :
       ~ChangingStatus(taskId, newStatus)
         /\ StatusChangeClick(Actor, taskId, newStatus)
  \/ \E taskId \in 1..MaxTasks : ~Deleting(taskId) /\ DeleteClick(Actor, taskId)

\* every awaited call of a mutation handler is answered
CallsAreAnswered ==
  /\ \A e \in InviteInputs :
       WF_vars(\E call \in InFlight, ok \in BOOLEAN :
                 /\ call.op = "sendInvite" /\ call.inviteEmail = e
                 /\ MutationStep(call, ok))
  /\ \A id \in 1..MaxConnections, accept \in BOOLEAN :
       WF_vars(\E call \in InFlight, ok \in BOOLEAN :
                 /\ call.op = "respondToRequest"
                 /\ call.connectionId = id /\ call.accept = accept
                 /\ MutationStep(call, ok))
  /\ WF_vars(\E call \in InFlight, ok \in BOOLEAN :
               /\ call.op \in {"handleCreateTask", "handleUpdateTask"}
               /\ call.fromDialog
               /\ MutationStep(call, ok))
  /\ \A taskId \in 1..MaxTasks, newStatus \in Statuses :
       WF_vars(\E call \in InFlight, ok \in BOOLEAN :
                 /\ call.op = "handleUpdateTask" /\ ~call.fromDialog
                 /\ call.taskId = taskId /\ call.taskData.status = newStatus
                 /\ MutationStep(call, ok))
  /\ \A taskId \in 1..MaxTasks :
       WF_vars(\E call \in InFlight, ok \in BOOLEAN :
                 /\ call.op = "handleDeleteTask" /\ call.taskId = taskId
                 /\ MutationStep(call, ok))

SpecActor == (TeamInit \/ TasksInit) /\ [][ActorNext]_vars /\ CallsAreAnswered

(***************************************************************************)
(* The task list as TasksPage draws it: filteredTasks (lines 152-159),     *)
(* computed on every render from the loaded list, the search box and the   *)
(* two filters.  Text is a sequence of characters; a description that is   *)
(* undefined is the value Undefined.                                       *)
(***************************************************************************)
MaxListed == 2

Undefined == <<"undefined">>

\* String.prototype.toLowerCase on one character of the alphabet used here
LowerOf(c) ==
  CASE c = "A" -> "a"
    [] c = "B" -> "b"
    [] OTHER -> c

\* text compared as typed
SameCase(s) == s

\* String.prototype.toLowerCase
ToLowerCase(s) == [i \in 1..Len(s) |-> LowerOf(s[i])]

\* String.prototype.includes
Includes(s, q) ==
  \E i \in 0..(Len(s) - Len(q)) : SubSeq(s, i + 1, i + Len(q)) = q

\* lines 153-154: title, or a description that is there
MatchesSearch(task, q) ==
  \/ Includes(ToLowerCase(task.title), ToLowerCase(q))
  \/ /\ task.description # Undefined
     /\ Includes(ToLowerCase(task.description), ToLowerCase(q))

\* lines 152-159
FilterTasks(list, q, status, priority) ==
  SelectSeq(list,
            LAMBDA task :
              /\ MatchesSearch(task, q)
              /\ status = "all" \/ task.status = status
              /\ priority = "all" \/ task.priority = priority)

filteredTasks(u) ==
  FilterTasks(tasks[u], searchQuery[u], statusFilter[u], priorityFilter[u])

\* the records a store may hold for a user
StoredTasks ==
  {[id |-> 0, title |-> t, status |-> s, priority |-> p, user_id |-> "u1",
    assignee_id |-> NoId, assignee_email |-> NoEmail, description |-> d] :
     t \in {<<"A", "b">>, <<"a">>}, s \in {"todo", "done"},
     p \in {"high", "low"}, d \in {Undefined, <<"a", "B">>}}

SearchInputs == {<<>>, <<"a">>, <<"B">>, <<"a", "B">>, <<"b", "a">>}

\* TasksPage of u1 after its loadTasks delivered the MaxListed tasks of the
\* store
FilterInit ==
  /\ db_user_connections = <<>>
  /\ db_notifications = <<>>
  /\ emailsSent = <<>>
  /\ TeamPageConstructed
  /\ toast = [u \in Users |-> "none"]
  /\ \E stored \in [1..MaxListed -> StoredTasks] :
       db_tasks = [i \in 1..MaxListed |-> [stored[i] EXCEPT !.id = i]]
  /\ taskClock = MaxListed
  /\ tasks = [u \in Users |-> ListTasksOf(u)]
  /\ tasksLoading = [u \in Users |-> FALSE]
  /\ isDialogOpen = [u \in Users |-> FALSE]
  /\ editingTask = [u \in Users |-> NoTask]
  /\ assigneeId = [u \in Users |-> NoId]
  /\ dialogTeamMembers = [u \in Users |-> <<>>]
  /\ searchQuery = [u \in Users |-> <<>>]
  /\ statusFilter = [u \in Users |-> "all"]
  /\ priorityFilter = [u \in Users |-> "all"]
  /\ FeedConstructed
  /\ mounted = "TasksPage"
  /\ inflight = EmptyBag
  /\ answer = "none"

\* the search box (lines 231-236)
SetSearchQuery(u, q) ==
  /\ mounted = "TasksPage"
  /\ searchQuery' = [searchQuery EXCEPT ![u] = q]
  /\ answer' = "none"
  /\ UNCHANGED <<teamStore, teamView, db_tasks, taskClock, tasks, tasksLoading,
                 isDialogOpen, editingTask, assigneeId, dialogTeamMembers,
                 statusFilter, priorityFilter, feedView, mounted, inflight>>

\* the status menu (lines 241-254)
SetStatusFilter(u, status) ==
  /\ mounted = "TasksPage"
  /\ statusFilter' = [statusFilter EXCEPT ![u] = status]
  /\ answer' = "none"
  /\ UNCHANGED <<teamStore, teamView, db_tasks, taskClock, tasks, tasksLoading,
                 isDialogOpen, editingTask, assigneeId, dialogTeamMembers,
                 searchQuery, priorityFilter, feedView, mounted, inflight>>

\* the priority menu (lines 258-271)
SetPriorityFilter(u, priority) ==
  /\ mounted = "TasksPage"
  /\ priorityFilter' = [priorityFilter EXCEPT ![u] = priority]
  /\ answer' = "none"
  /\ UNCHANGED <<teamStore, teamView, db_tasks, taskClock, tasks, tasksLoading,
                 isDialogOpen, editingTask, assigneeId, dialogTeamMembers,
                 searchQuery, statusFilter, feedView, mounted, inflight>>

FilterNext ==
  \/ \E q \in SearchInputs : SetSearchQuery("u1", q)
  \/ \E status \in {"all"} \cup Statuses : SetStatusFilter("u1", status)
  \/ \E priority \in {"all", "low", "medium", "high"} :
       SetPriorityFilter("u1", priority)

SpecFilter == FilterInit /\ [][FilterNext]_vars


(***************************************************************************)
(* TasksPage opened on a store that holds MaxListed tasks created in       *)
(* earlier sessions, the accepted connection of the two users and the      *)
(* notification its acceptance wrote; the lists are loaded.  Tasks are     *)
(* deleted from the menus of their cards.                                  *)
(***************************************************************************)
CreatedTask(i, u, status) ==
  [id |-> i, title |-> <<"T">>, status |-> status, priority |-> "medium",
   user_id |-> u, assignee_id |-> NoId, assignee_email |-> NoEmail,
   description |-> <<>>]

DeleteInit ==
  /\ db_user_connections = <<AcceptedSeed>>
  /\ db_notifications =
       <<[id |-> 1, user_id |-> AcceptedSeed.requester_id,
          type |-> "connection_accepted", data |-> AcceptedSeed.id, read |-> 0]>>
  /\ emailsSent = <<>>
  /\ TeamPageConstructed
  /\ toast = [u \in Users |-> "none"]
  /\ \E owner \in [1..MaxListed -> Users], status \in [1..MaxListed -> Statuses] :
       db_tasks = [i \in 1..MaxListed |-> CreatedTask(i, owner[i], status[i])]
  /\ taskClock = MaxListed
  /\ tasks = [u \in Users |-> ListTasksOf(u)]
  /\ tasksLoading = [u \in Users |-> FALSE]
  /\ isDialogOpen = [u \in Users |-> FALSE]
  /\ editingTask = [u \in Users |-> NoTask]
  /\ assigneeId = [u \in Users |-> NoId]
  /\ dialogTeamMembers = [u \in Users |-> <<>>]
  /\ searchQuery = [u \in Users |-> <<>>]
  /\ statusFilter = [u \in Users |-> "all"]
  /\ priorityFilter = [u \in Users |-> "all"]
  /\ FeedConstructed
  /\ mounted = "TasksPage"
  /\ inflight = EmptyBag
  /\ answer = "none"

DeleteNext ==
  \/ \E u \in Users, taskId \in 1..MaxListed : DeleteClick(u, taskId)
  \/ \E call \in InFlight, ok \in BOOLEAN : HandleDeleteTask(call, ok)

SpecDelete == DeleteInit /\ [][DeleteNext]_vars

(***************************************************************************)
(* TasksPage opened anew on a store in which an earlier session has        *)
(* assigned the owner's task to the other user: the page and its dialog    *)
(* are as constructed, loadTasks is in flight, and the owner edits.        *)
(***************************************************************************)
AssignedTask ==
  [CreatedTask(1, "u1", "todo") EXCEPT
     !.assignee_id = "u2", !.assignee_email = EmailOf("u2")]

EditInit ==
  /\ db_user_connections = <<AcceptedSeed>>
  /\ db_notifications = <<>>
  /\ emailsSent = <<>>
  /\ TeamPageConstructed
  /\ toast = [u \in Users |-> "none"]
  /\ db_tasks = <<AssignedTask>>
  /\ taskClock = 1
  /\ tasks = [u \in Users |-> <<>>]
  /\ tasksLoading = [u \in Users |-> TRUE]
  /\ isDialogOpen = [u \in Users |-> FALSE]
  /\ editingTask = [u \in Users |-> NoTask]
  /\ assigneeId = [u \in Users |-> NoId]
  /\ dialogTeamMembers = [u \in Users |-> <<>>]
  /\ searchQuery = [u \in Users |-> <<>>]
  /\ statusFilter = [u \in Users |-> "all"]
  /\ priorityFilter = [u \in Users |-> "all"]
  /\ FeedConstructed
  /\ mounted = "TasksPage"
  /\ inflight = SetToBag({LoadTasksCall("u1")})
  /\ answer = "none"

EditNext ==
  \/ \E call \in InFlight, ok \in BOOLEAN : LoadTasks(call, ok)
  \/ \E task \in ListedTasks("u1") : OpenTaskDialog("u1", task)
  \/ \E call \in InFlight, ok \in BOOLEAN : LoadTeamMembers(call, ok)
  \/ \E id \in {NoId} \cup Users : SelectAssignee("u1", id)
  \/ CloseTaskDialog("u1")
  \/ \E title \in TitleInputs, status \in DialogStatuses,
        priority \in DialogPriorities : DialogSave("u1", title, status, priority)
  \/ \E call \in InFlight, ok \in BOOLEAN : HandleUpdateTask(call, ok)

SpecEdit == EditInit /\ [][EditNext]_vars

(***************************************************************************)
(* handleUpdateTask with the two ends of its awaited call apart: the store *)
(* applies the write when the request arrives, and the handler goes on     *)
(* when the answer arrives.  Requests and answers of different calls are   *)
(* not ordered among themselves.  The page is open on one loaded task and  *)
(* the owner changes its status from the menu of its card.                 *)
(***************************************************************************)
\* tasks.update (lines 107-110) reaches the store
UpdateArrives(call, ok) ==
  LET u == call.user
      id == call.taskId
  IN
  /\ call \in InFlight
  /\ call.op = "handleUpdateTask" /\ call.pc = "update"
  /\ ok => Has(db_tasks, id)
  /\ IF ok
       THEN /\ db_tasks' = [db_tasks EXCEPT ![Index(db_tasks, id)] =
                              Updated(@, call.taskData)]
            /\ inflight' = Continue(call, [call EXCEPT !.pc = "updated"])
            /\ UNCHANGED toast
       ELSE /\ toast' = [toast EXCEPT ![u] = "Error: Failed to update task"]
            /\ inflight' = Finish(call)
            /\ UNCHANGED db_tasks
  /\ answer' = IF ok THEN "none" ELSE "rejected"
  /\ UNCHANGED <<teamStore, connections, teamMembers, pendingRequests,
                 inviteEmail, inviteDialogOpen, loading, taskClock, tasksView,
                 feedView, mounted>>

\* the answer reaches the handler (lines 112-119)
UpdateCompletes(call) ==
  LET u == call.user IN
  /\ call \in InFlight
  /\ call.op = "handleUpdateTask" /\ call.pc = "updated"
  /\ tasks' = [tasks EXCEPT ![u] = TasksAfterUpdate(@, call.taskId, call.taskData, TRUE)]
  /\ toast' = [toast EXCEPT ![u] = "Success: Task updated"]
  /\ AfterSave(call)
  /\ inflight' = Finish(call)
  /\ answer' = "ok"
  /\ UNCHANGED <<teamStore, connections, teamMembers, pendingRequests,
                 inviteEmail, inviteDialogOpen, loading, db_tasks, taskClock,
                 tasksLoading, filterView, dialogTeamMembers, feedView, mounted>>

OverlapInit ==
  /\ db_user_connections = <<AcceptedSeed>>
  /\ db_notifications = <<>>
  /\ emailsSent = <<>>
  /\ TeamPageConstructed
  /\ toast = [u \in Users |-> "none"]
  /\ \E status \in Statuses : db_tasks = <<CreatedTask(1, "u1", status)>>
  /\ taskClock = 1
  /\ tasks = [u \in Users |-> ListTasksOf(u)]
  /\ tasksLoading = [u \in Users |-> FALSE]
  /\ isDialogOpen = [u \in Users |-> FALSE]
  /\ editingTask = [u \in Users |-> NoTask]
  /\ assigneeId = [u \in Users |-> NoId]
  /\ dialogTeamMembers = [u \in Users |-> <<>>]
  /\ searchQuery = [u \in Users |-> <<>>]
  /\ statusFilter = [u \in Users |-> "all"]
  /\ priorityFilter = [u \in Users |-> "all"]
  /\ FeedConstructed
  /\ mounted = "TasksPage"
  /\ inflight = EmptyBag
  /\ answer = "none"

OverlapNext ==
  \/ \E newStatus \in Statuses : StatusChangeClick("u1", 1, newStatus)
  \/ \E call \in InFlight, ok \in BOOLEAN : UpdateArrives(call, ok)
  \/ \E call \in InFlight : UpdateCompletes(call)

SpecOverlap == OverlapInit /\ [][OverlapNext]_vars

(***************************************************************************)
(* The application: the sessions have one of the three components open.    *)
(***************************************************************************)
Init == TeamInit \/ TasksInit \/ FeedInit

Next == TeamNext \/ TasksNext \/ FeedNext

Spec == Init /\ [][Next]_vars

(***************************************************************************)
(* Reading a step: which invocation moved, and what it did to the store.   *)
(***************************************************************************)
\* the invocation `call` took its step (it left the place it was waiting at)
Stepped(call) == CopiesIn(call, inflight') < CopiesIn(call, inflight)

Answered(call) == Stepped(call) /\ answer' = "ok"
Rejected(call) == Stepped(call) /\ answer' = "rejected"

Ids(records) == {records[i].id : i \in 1..Len(records)}
Count(records, Test(_)) == Len(SelectSeq(records, Test))

\* the user an invitation is meant for: the one whose email it names
IntendedRecipient(conn, u) == EmailOf(u) = conn.recipient_email

(***************************************************************************)
(* C1.  respondToRequest on a connection whose stored status is not        *)
(* pending fails and leaves the record unchanged; so the status of a       *)
(* connection changes only from pending (to accepted or rejected), also    *)
(* when two responses are issued from one stale Pending Requests list.     *)
(***************************************************************************)
C1_StatusChangesOnlyFromPending ==
  [][\A i \in 1..Len(db_user_connections) :
       /\ db_user_connections[i].status # "pending"
            => db_user_connections'[i] = db_user_connections[i]
       /\ db_user_connections'[i].status # db_user_connections[i].status
            => db_user_connections'[i].status \in {"accepted", "rejected"}]_vars

(***************************************************************************)
(* C2.  When loadTeamData of user U is answered, U's pendingRequests are   *)
(* exactly the pending connections of the store whose invited email is     *)
(* U's: an invitation sendInvite created for U's email is among them.      *)
(***************************************************************************)
PendingInvitationsFor(u) ==
  {db_user_connections[i].id : i \in
     {j \in 1..Len(db_user_connections) :
        /\ db_user_connections[j].status = "pending"
        /\ IntendedRecipient(db_user_connections[j], u)}}

C2_PendingRequestsAreTheInvitations ==
  [][\A call \in InFlight :
       (call.op = "loadTeamData" /\ Answered(call))
         => Ids(pendingRequests'[call.user]) = PendingInvitationsFor(call.user)]_vars

(***************************************************************************)
(* C3.  sendInvite calls of a requester R run one after another.  When the *)
(* existence check finds no connection from R to the typed email E, the    *)
(* call creates exactly one record (pending, requester R, email E) and,    *)
(* the mail sent, shows "Invite Sent!".  When it finds one, whatever its   *)
(* status, the call creates no record, sends no email and shows "Already   *)
(* Connected"; so the store never holds two connections from R to E.       *)
(***************************************************************************)
OnePerRequesterAndEmail(conns) ==
  \A i, j \in 1..Len(conns) :
    (conns[i].requester_id = conns[j].requester_id
       /\ conns[i].recipient_email = conns[j].recipient_email) => i = j

C3_SendInviteStep(call) ==
  LET u == call.user
      e == call.inviteEmail
  IN
  /\ call.pc = "list" =>
       IF \E i \in 1..Len(db_user_connections) :
            /\ db_user_connections[i].requester_id = u
            /\ db_user_connections[i].recipient_email = e
         THEN /\ UNCHANGED <<db_user_connections, emailsSent>>
              /\ toast'[u] = "Already Connected"
              /\ inflight' = Finish(call)
         ELSE /\ UNCHANGED <<db_user_connections, emailsSent, toast>>
              /\ inflight' = Continue(call, [call EXCEPT !.pc = "create"])
  /\ call.pc = "create" =>
       /\ Len(db_user_connections') = Len(db_user_connections) + 1
       /\ SubSeq(db_user_connections', 1, Len(db_user_connections))
            = db_user_connections
       /\ LET new == db_user_connections'[Len(db_user_connections')]
          IN  /\ new.status = "pending"
              /\ new.requester_id = u
              /\ new.recipient_email = e
       /\ UNCHANGED emailsSent
  /\ call.pc = "email" =>
       /\ emailsSent' = Append(emailsSent, e)
       /\ toast'[u] = "Invite Sent!"
       /\ UNCHANGED db_user_connections

C3_DuplicateInviteGuard ==
  [][/\ \A call \in InFlight :
          (call.op = "sendInvite" /\ Answered(call)) => C3_SendInviteStep(call)
     /\ OnePerRequesterAndEmail(db_user_connections')]_vars

\* a second invitation of the same email was turned down as a duplicate
C3_Witness ==
  \E u \in Users :
    /\ toast[u] = "Already Connected"
    /\ \E i \in 1..Len(db_user_connections) :
         /\ db_user_connections[i].requester_id = u
         /\ db_user_connections[i].recipient_id = NoId
    /\ emailsSent # <<>>

(***************************************************************************)
(* C4.  Once a connection is accepted, the team-member list loadTeamData   *)
(* gives the requester holds the recipient exactly once, and the list it   *)
(* gives the recipient holds the requester exactly once; also when the two *)
(* users invited each other and both connections are accepted.             *)
(***************************************************************************)
TimesListed(members, id) == Count(members, LAMBDA m : m.id = id)

C4_AcceptSymmetry ==
  \A u \in Users :
    \A i \in 1..Len(connections[u]) :
      LET conn == connections[u][i] IN
      conn.status = "accepted" =>
        /\ conn.requester_id = u => TimesListed(teamMembers[u], conn.recipient_id) = 1
        /\ conn.recipient_id = u => TimesListed(teamMembers[u], conn.requester_id) = 1

(***************************************************************************)
(* C8.  The notifications collection grows only when the recipient's       *)
(* Accept of a request has updated the connection: then by one record, of  *)
(* type connection_accepted, addressed to the connection's requester and   *)
(* carrying the connection id.  An Accept of a pending connection always   *)
(* goes on to write it; a Decline writes none.                             *)
(***************************************************************************)
C8_AcceptNotifiesRequester ==
  [][/\ db_notifications' # db_notifications =>
          \E call \in InFlight :
            /\ call.op = "respondToRequest" /\ call.accept /\ call.pc = "notify"
            /\ Answered(call)
            /\ db_notifications' =
                 Append(db_notifications,
                        [id |-> Len(db_notifications) + 1,
                         user_id |->
                           db_user_connections[call.connectionId].requester_id,
                         type |-> "connection_accepted",
                         data |-> call.connectionId,
                         read |-> 0])
     /\ \A call \in InFlight :
          (/\ call.op = "respondToRequest" /\ call.pc = "update"
           /\ Answered(call)
           /\ call.accept
           /\ db_user_connections[call.connectionId].status = "pending")
            => CopiesIn([call EXCEPT !.pc = "notify"], inflight')
                 > CopiesIn([call EXCEPT !.pc = "notify"], inflight)]_vars

\* an accepted connection whose requester has been notified
C8_Witness ==
  \E i \in 1..Len(db_notifications), j \in 1..Len(db_user_connections) :
    /\ db_user_connections[j].status = "accepted"
    /\ db_notifications[i].data = j
    /\ db_notifications[i].user_id = db_user_connections[j].requester_id

Added(before, after) == SubSeq(after, Len(before) + 1, Len(after))

(***************************************************************************)
(* C5.  When handleCreateTask has persisted a task whose payload names an  *)
(* assignee other than the owner, the step has added exactly one           *)
(* task_assigned notification addressed to the assignee and one email to   *)
(* the assignee's email; when the payload names no assignee or the owner,  *)
(* it has added no task_assigned notification.                             *)
(***************************************************************************)
C5_CreateNotifiesAssignee ==
  [][\A call \in InFlight :
       (Answered(call) /\ call.op = "handleCreateTask") =>
         LET A == call.taskData.assignee_id
             assigned == SelectSeq(Added(db_notifications, db_notifications'),
                                   LAMBDA n : n.type = "task_assigned")
         IN  IF A # NoId /\ A # call.user
               THEN /\ Len(assigned) = 1
                    /\ assigned[1].user_id = A
                    /\ Added(emailsSent, emailsSent')
                         = <<call.taskData.assignee_email>>
               ELSE assigned = <<>>]_vars

(***************************************************************************)
(* C6.  The assignee A of a task owned by U completes it: A's task list,   *)
(* as loadTasks delivers it, holds the tasks assigned to A; a              *)
(* handleUpdateTask of A that takes such a task from another status to     *)
(* done adds exactly one task_completed notification addressed to U; and   *)
(* no other step adds a task_completed notification.                       *)
(***************************************************************************)
C6_CompletionNotifiesOwnerOnce ==
  [][LET completed == SelectSeq(Added(db_notifications, db_notifications'),
                                LAMBDA n : n.type = "task_completed")
         Completes(call) ==
           /\ Answered(call)
           /\ call.op = "handleUpdateTask"
           /\ "status" \in call.taskData.keys
           /\ call.taskData.status = "done"
           /\ \E i \in 1..Len(db_tasks) :
                /\ db_tasks[i].id = call.taskId
                /\ db_tasks[i].assignee_id = call.user
                /\ db_tasks[i].user_id # call.user
                /\ db_tasks[i].status # "done"
     IN  /\ \A call \in InFlight :
              (Answered(call) /\ call.op = "loadTasks") =>
                \A i \in 1..Len(db_tasks) :
                  (db_tasks[i].assignee_id = call.user) =>
                    Has(tasks'[call.user], db_tasks[i].id)
         /\ \A call \in InFlight :
              Completes(call) =>
                /\ Len(completed) = 1
                /\ completed[1].user_id
                     = db_tasks[Index(db_tasks, call.taskId)].user_id
         /\ (~ \E call \in InFlight : Completes(call)) => completed = <<>>]_vars


(***************************************************************************)
(* C7.  In every state of the notification feed, unreadCount is the number *)
(* of notifications of the loaded list whose read flag is 0.               *)
(***************************************************************************)
C7_UnreadCountMatchesList ==
  \A u \in FeedUsers : unreadCount[u] = Len(Unread(notifications[u]))


(***************************************************************************)
(* C10.  When the store rejects the primary call of handleCreateTask,      *)
(* handleUpdateTask, handleDeleteTask, sendInvite or respondToRequest, the *)
(* step leaves tasks, connections, teamMembers and pendingRequests as they *)
(* were and shows the handler's failure notice to the user.                *)
(***************************************************************************)
C10_Primary(call) ==
  \/ call.op = "handleCreateTask" /\ call.pc = "create"
  \/ call.op = "handleUpdateTask" /\ call.pc = "update"
  \/ call.op = "handleDeleteTask" /\ call.pc = "delete"
  \/ call.op = "sendInvite" /\ call.pc = "create"
  \/ call.op = "respondToRequest" /\ call.pc = "update"

C10_FailureNotice(call) ==
  CASE call.op = "handleCreateTask" -> "Error: Failed to create task"
    [] call.op = "handleUpdateTask" -> "Error: Failed to update task"
    [] call.op = "handleDeleteTask" -> "Error: Failed to delete task"
    [] call.op = "sendInvite" -> "Error: Failed to send invite"
    [] call.op = "respondToRequest" -> "Error: Failed to respond to request"

C10_RejectionLeavesListsAlone ==
  [][\A call \in InFlight :
       (Rejected(call) /\ C10_Primary(call)) =>
         /\ UNCHANGED <<tasks, connections, teamMembers, pendingRequests>>
         /\ toast'[call.user] = C10_FailureNotice(call)
         /\ IsFailureToast(toast'[call.user])]_vars

\* an update of a listed task has been rejected, and the notice is up
C10_Witness ==
  /\ answer = "rejected"
  /\ \E u \in Users :
       /\ toast[u] = "Error: Failed to update task"
       /\ tasks[u] # <<>>


\* the invocations of handler op in flight
InFlightOf(op) ==
  BagCardinality([c \in {d \in InFlight : d.op = op} |-> inflight[c]])

(***************************************************************************)
(* C11.  When the secondary call of a handler is rejected after its        *)
(* primary store call succeeded (the email of sendInvite, the notification *)
(* create of respondToRequest), the user sees the success acknowledgment   *)
(* and no failure message, and the rest of the handler runs: the form is   *)
(* reset, the dialog closed (sendInvite) and loadTeamData started.         *)
(***************************************************************************)
C11_SecondaryFailureIsSwallowed ==
  [][\A call \in InFlight :
       LET u == call.user IN
       /\ (Rejected(call) /\ call.op = "sendInvite" /\ call.pc = "email") =>
            /\ toast'[u] = "Invite Sent!"
            /\ inviteEmail'[u] = <<>>
            /\ ~inviteDialogOpen'[u]
            /\ CopiesIn(LoadCall(u), inflight') > CopiesIn(LoadCall(u), inflight)
       /\ (Rejected(call) /\ call.op = "respondToRequest" /\ call.pc = "notify") =>
            /\ toast'[u] = "Request Accepted"
            /\ CopiesIn(LoadCall(u), inflight') > CopiesIn(LoadCall(u), inflight)]_vars

(***************************************************************************)
(* C18.  When the invitation email is rejected after sendInvite created    *)
(* the connection, the step changes no connection record and ends the      *)
(* handler, so no later store call of it follows; the created connection   *)
(* is in the store with status pending.                                    *)
(***************************************************************************)
C18_NoRollbackOfInvite ==
  [][\A call \in InFlight :
       (Rejected(call) /\ call.op = "sendInvite" /\ call.pc = "email") =>
         /\ db_user_connections' = db_user_connections
         /\ BagCardinality(inflight') = BagCardinality(inflight) - 1
         /\ \E i \in 1..Len(db_user_connections') :
              /\ db_user_connections'[i].requester_id = call.user
              /\ db_user_connections'[i].recipient_email = call.inviteEmail
              /\ db_user_connections'[i].status = "pending"]_vars

\* every sendInvite has ended and one of the created invitations has no email
C18_Witness ==
  /\ mounted = "TeamPage"
  /\ InFlightOf("sendInvite") = 0
  /\ Count(db_user_connections, LAMBDA c : c.recipient_id = NoId) > Len(emailsSent)
  /\ \A i \in 1..Len(db_user_connections) :
       db_user_connections[i].recipient_id = NoId =>
         db_user_connections[i].status = "pending"


(***************************************************************************)
(* C12.  markAsRead is idempotent: a markAsRead of a notification that the *)
(* loaded list already shows read (a second call for the same              *)
(* notification) changes neither the store record, nor the loaded list,    *)
(* nor unreadCount.                                                        *)
(***************************************************************************)
C12_MarkAsReadIdempotent ==
  [][\A call \in InFlight :
       (/\ Answered(call)
        /\ call.op = "markAsRead"
        /\ \E i \in 1..Len(notifications[call.user]) :
             /\ notifications[call.user][i].id = call.notificationId
             /\ notifications[call.user][i].read = 1)
       => UNCHANGED <<db_notifications, notifications, unreadCount>>]_vars


(***************************************************************************)
(* C13.  markAllAsRead updates the unread notifications of the loaded list *)
(* one at a time.  An accepted update marks that one record read and       *)
(* nothing else in the store.  A rejected update changes no record (the    *)
(* earlier ones stay read, the remaining ones unread), ends the handler    *)
(* with no further update, and leaves the loaded list and unreadCount as   *)
(* they were.  When the last update is accepted every loaded notification  *)
(* is read and unreadCount is 0.                                           *)
(***************************************************************************)
C13_MarkAllAsReadStepwise ==
  [][\A call \in InFlight :
       (Stepped(call) /\ call.op = "markAllAsRead") =>
         LET u == call.user
             ended == BagCardinality(inflight') < BagCardinality(inflight)
         IN  /\ answer' = "rejected" =>
                  /\ ended
                  /\ UNCHANGED <<db_notifications, notifications, unreadCount>>
             /\ (answer' = "ok" /\ call.pc = "update") =>
                  /\ Len(db_notifications') = Len(db_notifications)
                  /\ \A i \in 1..Len(db_notifications) :
                       IF db_notifications[i].id = Head(call.unreadNotifications).id
                         THEN db_notifications'[i] =
                                [db_notifications[i] EXCEPT !.read = 1]
                         ELSE db_notifications'[i] = db_notifications[i]
             /\ (answer' = "ok" /\ ~ended) =>
                  UNCHANGED <<notifications, unreadCount>>
             /\ (answer' = "ok" /\ ended) =>
                  /\ \A i \in 1..Len(notifications'[u]) :
                       notifications'[u][i].read = 1
                  /\ unreadCount'[u] = 0]_vars

\* the second update of a markAllAsRead was rejected: the store holds the
\* first notification read and the second unread, the list shows both unread
C13_Witness ==
  /\ mounted = "NotificationCenter"
  /\ answer = "rejected"
  /\ inflight = EmptyBag
  /\ \E u \in FeedUsers :
       /\ unreadCount[u] = 2
       /\ Len(Unread(notifications[u])) = 2
       /\ Len(Unread(ListNotificationsOf(u))) = 1
       /\ toast[u] # "All notifications marked as read"


(***************************************************************************)
(* C14.  No step of the application deletes a notification record or sets  *)
(* the read flag of a record back from 1 to 0: every record stays where it *)
(* is, with its id, and a flag that is 1 stays 1.                          *)
(***************************************************************************)
C14_ReadNeverReverts ==
  [][/\ Len(db_notifications') >= Len(db_notifications)
     /\ \A i \in 1..Len(db_notifications) :
          /\ db_notifications'[i].id = db_notifications[i].id
          /\ db_notifications[i].read = 1 => db_notifications'[i].read = 1]_vars

\* a record was marked read, a later record was created, and a poll after
\* both loaded the first as read and the second as unread
C14_Witness ==
  /\ Len(db_notifications) = 2
  /\ db_notifications[1].read = 1
  /\ db_notifications[2].read = 0
  /\ \E u \in FeedUsers :
       /\ Len(notifications[u]) = 2
       /\ notifications[u][1] = db_notifications[2]
       /\ notifications[u][2] = db_notifications[1]


(***************************************************************************)
(* C15.  The record an accepted handleCreateTask persists is owned by the  *)
(* calling user, has status todo when the payload gives none and the       *)
(* payload's status otherwise, priority medium when the payload gives none *)
(* and the payload's priority otherwise; and a create whose payload has no *)
(* assignee adds no notification record.                                   *)
(***************************************************************************)
C15_CreateDefaults ==
  [][\A call \in InFlight :
       (Answered(call) /\ call.op = "handleCreateTask") =>
         LET taskData == call.taskData
             created == Added(db_tasks, db_tasks')
             Gives(key) == key \in taskData.keys
         IN  /\ Len(created) = 1
             /\ created[1].user_id = call.user
             /\ created[1].status =
                  IF Gives("status") /\ taskData.status # NoValue
                    THEN taskData.status ELSE "todo"
             /\ created[1].priority =
                  IF Gives("priority") /\ taskData.priority # NoValue
                    THEN taskData.priority ELSE "medium"
             /\ (~Gives("assignee_id") \/ taskData.assignee_id = NoId) =>
                  db_notifications' = db_notifications]_vars

\* a payload with priority high, no status and no assignee was persisted
C15_Witness ==
  /\ answer = "ok"
  /\ db_notifications = <<>>
  /\ \E i \in 1..Len(db_tasks) :
       /\ db_tasks[i].status = "todo"
       /\ db_tasks[i].priority = "high"
       /\ toast[db_tasks[i].user_id] = "Success: Task created"


\* text with a character in it and no space at either end
NonEmptyTrimmed(text) ==
  /\ text # <<>>
  /\ Head(text) # " "
  /\ text[Len(text)] # " "

(***************************************************************************)
(* C16.  Every title the store is asked to write or holds is non-empty and *)
(* trimmed: the title of each handleCreateTask payload, of each            *)
(* handleUpdateTask payload that carries one, and of each stored task.     *)
(***************************************************************************)
C16_NoBlankTitleStored ==
  /\ \A i \in 1..Len(db_tasks) : NonEmptyTrimmed(db_tasks[i].title)
  /\ \A call \in InFlight :
       (/\ call.op \in {"handleCreateTask", "handleUpdateTask"}
        /\ "title" \in call.taskData.keys)
       => NonEmptyTrimmed(call.taskData.title)

\* a title typed with a space before it was created, then edited and saved
\* again, then its status changed from the card
C16_Witness ==
  /\ mounted = "TasksPage"
  /\ \E i \in 1..Len(db_tasks) :
       /\ db_tasks[i].title = <<"T">>
       /\ db_tasks[i].assignee_id # NoId
       /\ db_tasks[i].status = "in_progress"

(***************************************************************************)
(* C17.  Sending an invite with an empty email is reported to the user: in *)
(* the step in which blank text is entered in the invite form and Send     *)
(* Invite pressed, a failure message is shown, and no sendInvite call is   *)
(* left to be retried.                                                     *)
(***************************************************************************)
C17_ValidationErrorIsShown ==
  [][\A u \in Users :
       (/\ inviteEmail'[u] # inviteEmail[u]
        /\ inviteEmail'[u] # <<>>
        /\ Trim(inviteEmail'[u]) = <<>>)
       => /\ IsFailureToast(toast'[u])
          /\ inflight' = inflight]_vars


(***************************************************************************)
(* C19.  Every invocation of handleCreateTask, handleUpdateTask,           *)
(* handleDeleteTask, sendInvite (with a non-empty email) or                *)
(* respondToRequest ends once its awaited calls are answered, and shows    *)
(* exactly one outcome: the steps before its last show nothing, its last   *)
(* step shows either its success acknowledgment or a failure message.      *)
(***************************************************************************)
C19_Success(call) ==
  CASE call.op = "sendInvite" -> "Invite Sent!"
    [] call.op = "respondToRequest" ->
         IF call.accept THEN "Request Accepted" ELSE "Request Declined"
    [] call.op = "handleCreateTask" -> "Success: Task created"
    [] call.op = "handleUpdateTask" -> "Success: Task updated"
    [] call.op = "handleDeleteTask" -> "Success: Task deleted"

C19_Failures(call) ==
  CASE call.op = "sendInvite" -> {"Error: Failed to send invite", "Already Connected"}
    [] call.op = "respondToRequest" -> {"Error: Failed to respond to request"}
    [] call.op = "handleCreateTask" -> {"Error: Failed to create task"}
    [] call.op = "handleUpdateTask" -> {"Error: Failed to update task"}
    [] call.op = "handleDeleteTask" -> {"Error: Failed to delete task"}

C19_Mutations ==
  {"sendInvite", "respondToRequest", "handleCreateTask", "handleUpdateTask",
   "handleDeleteTask"}

C19_OneOutcomePerMutation ==
  /\ \A e \in InviteInputs : SendingInvite(e) ~> ~SendingInvite(e)
  /\ \A id \in 1..MaxConnections, accept \in BOOLEAN :
       Responding(id, accept) ~> ~Responding(id, accept)
  /\ (mounted = "TasksPage" /\ Saving(Actor))
       ~> ~(mounted = "TasksPage" /\ Saving(Actor))
  /\ \A taskId \in 1..MaxTasks, newStatus \in Statuses :
       ChangingStatus(taskId, newStatus) ~> ~ChangingStatus(taskId, newStatus)
  /\ \A taskId \in 1..MaxTasks : Deleting(taskId) ~> ~Deleting(taskId)
  /\ [][\A call \in InFlight :
          (Stepped(call) /\ call.op \in C19_Mutations) =>
            LET u == call.user
                goesOn == \E next \in BagToSet(inflight') :
                            /\ next.op = call.op
                            /\ CopiesIn(next, inflight') > CopiesIn(next, inflight)
            IN  IF goesOn
                  THEN toast' = toast
                  ELSE /\ toast'[u] = C19_Success(call)
                            \/ toast'[u] \in C19_Failures(call)
                       /\ C19_Success(call) \notin C19_Failures(call)
                       /\ IsFailureToast(toast'[u]) <=> toast'[u] \in C19_Failures(call)
                       /\ answer' = "rejected" => toast'[u] \in C19_Failures(call)]_vars

\* an invitation went through all three of its calls and was acknowledged
C19_Witness ==
  /\ toast[Actor] = "Invite Sent!"
  /\ emailsSent # <<>>
  /\ InFlightOf("sendInvite") = 0


(***************************************************************************)
(* C20.  The list a loadNotifications of U is served holds only            *)
(* notifications of U, most recent first, at most 50, and the 50 most      *)
(* recent when U has more; when it is delivered, the loaded list is that   *)
(* list and unreadCount the number of its notifications with read flag 0.  *)
(***************************************************************************)
C20_LoadedFeed ==
  [][\A call \in InFlight :
       LET u == call.user
           ofU == SelectSeq(db_notifications, LAMBDA n : n.user_id = u)
       IN
       /\ (Stepped(call) /\ call.op = "loadNotifications" /\ call.pc = "list"
             /\ answer' # "rejected") =>
            \E next \in BagToSet(inflight') :
              LET list == next.userNotifications IN
              /\ next.op = "loadNotifications" /\ next.pc = "listed"
              /\ \A i \in 1..Len(list) : list[i].user_id = u
              /\ \A i \in 1..Len(list) :
                   \E j \in 1..Len(db_notifications) : db_notifications[j] = list[i]
              /\ \A i \in 1..(Len(list) - 1) : list[i].id > list[i + 1].id
              /\ Len(list) = IF Len(ofU) > 50 THEN 50 ELSE Len(ofU)
              /\ \A j \in 1..Len(ofU) :
                   (\A i \in 1..Len(list) : list[i] # ofU[j]) =>
                     \A i \in 1..Len(list) : ofU[j].id < list[i].id
       /\ (Answered(call) /\ call.op = "loadNotifications" /\ call.pc = "listed") =>
            /\ notifications'[u] = call.userNotifications
            /\ unreadCount'[u] =
                 Cardinality({i \in 1..Len(notifications'[u]) :
                                notifications'[u][i].read = 0})]_vars

\* U has more than 50 notifications and the loaded list is the 50 most recent
C20_Witness ==
  \E u \in FeedUsers :
    /\ Count(db_notifications, LAMBDA n : n.user_id = u) > 50
    /\ Len(notifications[u]) = 50
    /\ notifications[u][1].id = Len(db_notifications)
    /\ unreadCount[u] > 0


(***************************************************************************)
(* C21.  The feed starts a loadNotifications when it is mounted and one on *)
(* every firing of its timer, so a notification written to the store for   *)
(* the user is in the loaded list in the end, unless the feed is torn down *)
(* first; once it is torn down no loadNotifications is started.            *)
(***************************************************************************)
C21_PollingLoadsNewNotifications ==
  /\ \A u \in FeedUsers : LoadNotificationsCall(u) \in InFlight
  /\ \A u \in FeedUsers, id \in 1..MaxNotifications :
       (/\ mounted = "NotificationCenter"
        /\ \E i \in 1..Len(db_notifications) :
             db_notifications[i].id = id /\ db_notifications[i].user_id = u)
       ~> (mounted # "NotificationCenter" \/ id \in Ids(notifications[u]))
  /\ [][mounted # "NotificationCenter" =>
          \A u \in FeedUsers :
            CopiesIn(LoadNotificationsCall(u), inflight')
              <= CopiesIn(LoadNotificationsCall(u), inflight)]_vars

\* the feed was torn down after its polling had loaded two notifications
C21_Witness ==
  /\ mounted = "none"
  /\ \E u \in FeedUsers : Len(notifications[u]) = 2


(***************************************************************************)
(* C22.  filteredTasks is the loaded list cut down, in its order, to the   *)
(* tasks whose title or description contains the search text whatever the  *)
(* case of the letters, whose status is the status filter unless that is   *)
(* 'all', and whose priority is the priority filter unless that is 'all';  *)
(* the loaded list stays as it is.                                         *)
(***************************************************************************)
C22_SameLetter(a, b) ==
  \/ a = b
  \/ {a, b} \in {{"a", "A"}, {"b", "B"}}

C22_Contains(text, q) ==
  \E i \in 0..(Len(text) - Len(q)) :
    \A j \in 1..Len(q) : C22_SameLetter(text[i + j], q[j])

C22_Wanted(task, u) ==
  /\ \/ C22_Contains(task.title, searchQuery[u])
     \/ task.description # Undefined /\ C22_Contains(task.description, searchQuery[u])
  /\ statusFilter[u] \in {"all", task.status}
  /\ priorityFilter[u] \in {"all", task.priority}

C22_Kept(u) == {i \in 1..Len(tasks[u]) : C22_Wanted(tasks[u][i], u)}

C22_FilteredTasksExact ==
  /\ [](\A u \in Users :
          /\ Len(filteredTasks(u)) = Cardinality(C22_Kept(u))
          /\ \A i \in C22_Kept(u) :
               filteredTasks(u)[Cardinality({j \in C22_Kept(u) : j <= i})] = tasks[u][i])
  /\ [][tasks' = tasks]_vars

\* a search in capitals keeps the second of two tasks only, found by its
\* lower-case description
C22_Witness ==
  /\ searchQuery["u1"] = <<"B">>
  /\ Len(tasks["u1"]) = 2
  /\ Len(filteredTasks("u1")) = 1
  /\ filteredTasks("u1")[1] = tasks["u1"][2]
  /\ ~Includes(ToLowerCase(tasks["u1"][2].title), <<"b">>)


(***************************************************************************)
(* C23.  A handleDeleteTask whose delete the store accepted removes the    *)
(* task of its id, and nothing else, from the store and from the caller's  *)
(* list: the other tasks stay as they are and where they are, and so do    *)
(* the other user's list, the notifications and the connections.           *)
(***************************************************************************)
C23_Rest(list, id) ==
  [k \in 1..(Len(list) - 1) |-> IF k < Index(list, id) THEN list[k] ELSE list[k + 1]]

C23_DeleteFrame ==
  [][\A call \in InFlight :
       (call.op = "handleDeleteTask" /\ Stepped(call) /\ answer' = "ok") =>
         /\ Has(db_tasks, call.taskId)
         /\ db_tasks' = C23_Rest(db_tasks, call.taskId)
         /\ tasks'[call.user] =
              IF Has(tasks[call.user], call.taskId)
                THEN C23_Rest(tasks[call.user], call.taskId)
                ELSE tasks[call.user]
         /\ \A u \in Users \ {call.user} : tasks'[u] = tasks[u]
         /\ db_notifications' = db_notifications
         /\ db_user_connections' = db_user_connections]_vars

\* the first of u1's two tasks is deleted: the second is still in the store
\* and on the page, next to the notification and the connection
C23_Witness ==
  /\ Ids(db_tasks) = {2}
  /\ Ids(tasks["u1"]) = {2}
  /\ toast["u1"] = "Success: Task deleted"
  /\ Len(db_notifications) = 1
  /\ Len(db_user_connections) = 1


(***************************************************************************)
(* C24.  The team-member list a load computes for a user, on TeamPage and  *)
(* in the task dialog, holds one entry per accepted connection of the      *)
(* store in which the user is requester or recipient, naming the other     *)
(* side of it by id and email, and no other entry: a pending or a rejected *)
(* connection gives none.                                                  *)
(***************************************************************************)
C24_Touches(conn, u) == conn.requester_id = u \/ conn.recipient_id = u

C24_IsCounterparty(member, conn, u) ==
  \/ /\ conn.requester_id = u
     /\ member.id = conn.recipient_id
     /\ member.email = conn.recipient_email
  \/ /\ conn.recipient_id = u
     /\ member.id = conn.requester_id
     /\ member.email = conn.requester_email

C24_Computed(members, u) ==
  LET accepted == {i \in 1..Len(db_user_connections) :
                     /\ db_user_connections[i].status = "accepted"
                     /\ C24_Touches(db_user_connections[i], u)}
  IN  /\ \A k \in 1..Len(members) :
           \E i \in accepted :
             C24_IsCounterparty(members[k], db_user_connections[i], u)
      /\ \A i \in accepted :
           \E k \in 1..Len(members) :
             C24_IsCounterparty(members[k], db_user_connections[i], u)
      /\ Len(members) = Cardinality(accepted)

C24_MembersAreAcceptedCounterparties ==
  [][\A call \in InFlight :
       /\ (call.op = "loadTeamData" /\ Answered(call)) =>
            C24_Computed(teamMembers'[call.user], call.user)
       /\ (call.op = "loadTeamMembers" /\ Answered(call)) =>
            C24_Computed(dialogTeamMembers'[call.user], call.user)]_vars

\* TeamPage shows u1 one member while the store also holds a connection of
\* u1 that is pending or rejected
C24_Witness ==
  /\ mounted = "TeamPage"
  /\ Len(teamMembers["u1"]) = 1
  /\ C24_Computed(teamMembers["u1"], "u1")
  /\ \E i \in 1..Len(db_user_connections) :
       /\ C24_Touches(db_user_connections[i], "u1")
       /\ db_user_connections[i].status \in {"pending", "rejected"}


(***************************************************************************)
(* C25.  A payload the task dialog hands to its save handler with an       *)
(* assignee id names a member of the dialog's team-member list as it is at *)
(* that moment and carries that member's email, also for a task that       *)
(* already had its assignee when the dialog opened.                        *)
(***************************************************************************)
C25_SavedAssigneeIsListedMember ==
  [][\A call \in BagToSet(inflight') :
       (/\ CopiesIn(call, inflight') > CopiesIn(call, inflight)
        /\ call.op \in {"handleCreateTask", "handleUpdateTask"}
        /\ call.fromDialog
        /\ call.taskData.assignee_id # NoId) =>
          \E k \in 1..Len(dialogTeamMembers[call.user]) :
            /\ dialogTeamMembers[call.user][k].id = call.taskData.assignee_id
            /\ dialogTeamMembers[call.user][k].email = call.taskData.assignee_email]_vars


(***************************************************************************)
(* C26.  The calls of one handler follow one another.  sendInvite asks for *)
(* the email only once its create was accepted, so not when the existence  *)
(* check found a connection or the create was rejected, and an email goes  *)
(* out only as the answer to such a request.  respondToRequest asks for    *)
(* the connection_accepted notification only once its update was accepted, *)
(* and a notification is written only as the answer to such a request.     *)
(***************************************************************************)
C26_Began(call) == CopiesIn(call, inflight') > CopiesIn(call, inflight)

C26_At(call, op, pc) == call.op = op /\ call.pc = pc

C26_EmailAfterCreate ==
  \A call \in BagToSet(inflight') :
    (C26_Began(call) /\ C26_At(call, "sendInvite", "email")) =>
      /\ Answered([call EXCEPT !.pc = "create"])
      /\ db_user_connections' =
           Append(db_user_connections, NewConnection(call.user, call.inviteEmail))

C26_NoEmailOtherwise ==
  \A call \in InFlight :
    /\ (C26_At(call, "sendInvite", "list") /\ Stepped(call)
          /\ ListExisting(call.user, call.inviteEmail) # <<>>) =>
         /\ emailsSent' = emailsSent
         /\ \A next \in BagToSet(inflight') : ~C26_Began(next)
    /\ (C26_At(call, "sendInvite", "create") /\ Rejected(call)) =>
         /\ emailsSent' = emailsSent
         /\ \A next \in BagToSet(inflight') : ~C26_Began(next)

C26_EmailOnRequest ==
  emailsSent' # emailsSent =>
    \E call \in InFlight :
      /\ C26_At(call, "sendInvite", "email") /\ Answered(call)
      /\ emailsSent' = Append(emailsSent, call.inviteEmail)

C26_NotificationAfterUpdate ==
  /\ \A call \in BagToSet(inflight') :
       (C26_Began(call) /\ C26_At(call, "respondToRequest", "notify")) =>
         /\ Answered([call EXCEPT !.pc = "update"])
         /\ call.accept
         /\ \E i \in 1..Len(db_user_connections') :
              /\ db_user_connections'[i].id = call.connectionId
              /\ db_user_connections'[i].status = "accepted"
  /\ db_notifications' # db_notifications =>
       \E call \in InFlight :
         C26_At(call, "respondToRequest", "notify") /\ Answered(call)

C26_CallsInSequence ==
  [][/\ C26_EmailAfterCreate
     /\ C26_NoEmailOtherwise
     /\ C26_EmailOnRequest
     /\ C26_NotificationAfterUpdate]_vars

\* an invitation's email went out and an acceptance's notification was
\* written
C26_Witness ==
  /\ mounted = "TeamPage"
  /\ Len(emailsSent) = 1
  /\ Len(db_notifications) = 1


(***************************************************************************)
(* C27.  The store never holds two connections with the same requester id  *)
(* and the same recipient email, also when two sendInvite calls of one     *)
(* requester for one email are in flight together.                         *)
(***************************************************************************)
C27_OneConnectionPerPair ==
  \A i, j \in 1..Len(db_user_connections) :
    (/\ db_user_connections[i].requester_id = db_user_connections[j].requester_id
     /\ db_user_connections[i].recipient_email = db_user_connections[j].recipient_email)
      => i = j


(***************************************************************************)
(* C28.  In the list the feed has loaded, a notification that is shown as  *)
(* read is not shown as unread later, whatever the order in which the      *)
(* answers of loadNotifications, markAsRead and markAllAsRead arrive.       *)
(***************************************************************************)
C28_ShownReadStaysRead ==
  [][\A u \in FeedUsers :
       \A i \in 1..Len(notifications[u]), j \in 1..Len(notifications'[u]) :
         (/\ notifications[u][i].id = notifications'[u][j].id
          /\ notifications[u][i].read = 1)
           => notifications'[u][j].read = 1]_vars


(***************************************************************************)
(* C29.  On every store, and for every user, the team-member list          *)
(* loadTeamData computes (all the user's connections listed, the accepted  *)
(* ones kept by the page) has the same entries, with the same ids and      *)
(* emails and as many times, as the one the task dialog's loadTeamMembers  *)
(* computes (the accepted ones selected by the store); the order of the    *)
(* entries is that of the two list requests and is not compared.           *)
(***************************************************************************)
C29_SameEntries(a, b) ==
  /\ Len(a) = Len(b)
  /\ \A k \in 1..Len(a) :
       Count(a, LAMBDA m : m = a[k]) = Count(b, LAMBDA m : m = a[k])

C29_TeamPageAndDialogAgree ==
  \A u \in Users :
    C29_SameEntries(TeamMembersOf(ListConnectionsOf(u), u),
                    PushMembers(ListAcceptedConnectionsOf(u), u))

\* TeamPage has loaded two members for u1 from two accepted connections
C29_Witness ==
  /\ Len(teamMembers["u1"]) = 2
  /\ teamMembers["u1"] = TeamMembersOf(ListConnectionsOf("u1"), "u1")
  /\ Len(PushMembers(ListAcceptedConnectionsOf("u1"), "u1")) = 2


(***************************************************************************)
(* C30.  Once the handleUpdateTask calls on a task have all completed, two *)
(* overlapping accepted ones in particular, and nothing else runs, the     *)
(* task in the owner's list has the fields of the task record in the       *)
(* store.                                                                  *)
(***************************************************************************)
C30_ListEqualsStoreWhenQuiet ==
  (mounted = "TasksPage" /\ inflight = EmptyBag) =>
    \A u \in Users :
      \A i \in 1..Len(tasks[u]), j \in 1..Len(db_tasks) :
        tasks[u][i].id = db_tasks[j].id => tasks[u][i] = db_tasks[j]

====
